---- MODULE Spec2Model ----
(***************************************************************************)
(* Resilience control plane of Things-MCP: CircuitBreaker, ThingsAppState, *)
(* DeadLetterQueue and RateLimiter (things_mcp/utils.py), retry_operation  *)
(* and handle_tool_call (things_mcp/handlers.py), ThingsCache              *)
(* (things_mcp/cache.py).                                                  *)
(*                                                                         *)
(* Time is counted in ticks of half a second, the length of the poll sleep *)
(* of wait_for_app_availability; time.time() is the variable now.          *)
(* Python values are strings: "None", "False" and "" are the falsy ones.   *)
(***************************************************************************)
EXTENDS Integers, Sequences, FiniteSets, TLC

VARIABLES
    now,                \* time.time(), in ticks
    circuit_breaker,    \* the CircuitBreaker instance: its five fields
    last,               \* history: the last call made on the breaker
    consec,             \* history: record_failure calls since the last record_success
    runClosed,          \* history: the breaker was Closed when that run of failures began
    app_state,          \* the ThingsAppState instance
    dead_letter_queue,  \* DeadLetterQueue.queue
    pc,                 \* position of the caller inside retry_operation
    args,               \* arguments of the running retry_operation call
    attempt,            \* loop variable of retry_operation
    last_exception,     \* local last_exception of retry_operation
    start_time,         \* local start_time of wait_for_app_availability
    ret,                \* value returned by the last retry_operation call
    outcome,            \* history: how the last retry_operation call ended
    log,                \* history: what the running retry_operation call did, in order
    atCall,             \* history: the queue and the breaker when the call started
    dlq_file,           \* the file things_dlq.json
    replay,             \* position and locals of the running retry_all call
    tool,               \* position and arguments of the running handle_tool_call
    _cache,             \* the ThingsCache instance
    cacheHist,          \* history: the last cache call and the live set calls
    rate_limiter,       \* the RateLimiter instance
    limiter,            \* position of the caller inside wait_if_needed, and its returns
    threads,            \* position and locals of each of the concurrent callers
    backend,            \* history: the is_things_running() calls and the polls
    cache,              \* the SimpleCache instance of simple_server
    things              \* the Things database: what each list view shows

vars == <<now, circuit_breaker, last, consec, runClosed, app_state,
          dead_letter_queue, pc, args, attempt, last_exception, start_time,
          ret, outcome, log, atCall, dlq_file, replay, tool, _cache, cacheHist,
          rate_limiter, limiter, threads, backend, cache, things>>

(* what only the later specifications touch *)
moreVars == <<threads, backend, cache, things>>

(* what the breaker and retry_operation never touch *)
sideVars == <<replay, tool, _cache, cacheHist, rate_limiter, limiter, moreVars>>

breakerVars == <<circuit_breaker, last, consec, runClosed>>
retryVars == <<app_state, dead_letter_queue, pc, args, attempt, last_exception,
               start_time, ret, outcome, log, atCall>>

----------------------------------------------------------------------------
(* Bounds of the model *)

MaxTime == 22           \* the clock stops here
MaxThreshold == 3       \* failure_threshold is drawn from 1..MaxThreshold
MaxTimeout == 2         \* recovery_timeout is drawn from 1..MaxTimeout
MaxFailures == 4        \* free record_failure calls stop at this failure_count
MaxRetries == 3         \* max_retries is drawn from 1..MaxRetries
MaxQueue == 2           \* add_failed_operation is called while the queue is shorter
MaxAttempts == 4        \* retry_all is called while every entry's attempts is lower
MaxDlqTime == 1         \* ticks that pass between the calls on the dead letter queue
MaxEntries == 2         \* set stores a new key while the cache holds fewer entries
MaxGets == 1            \* get is called while hit_count + miss_count is lower
MaxCacheTime == 1       \* seconds that pass between the calls on the cache
MaxConcTime == 5        \* ticks that pass while the concurrent callers run
MaxProbe == 1           \* is_things_running() takes from 0 to MaxProbe ticks
MaxRevision == 1        \* a write changes a list view while its revision is lower

(* Program constants *)

TicksPerSecond == 2     \* time.sleep(0.5) is one tick
PollSleep == TicksPerSecond \div 2      \* time.sleep(0.5) in wait_for_app_availability
CheckInterval == 5 * TicksPerSecond     \* self.check_interval = 5
AvailTimeout == 5 * TicksPerSecond      \* wait_for_app_availability(timeout=5)
DefaultDelay == 1 * TicksPerSecond      \* retry_operation(..., delay=1, ...): no caller passes another
StartTime == CheckInterval + 1  \* time.time() at start-up is far more than check_interval
DefaultMaxRetries == 3                  \* retry_operation(func, max_retries=3, ...)
DefaultTtl == 300 * TicksPerSecond      \* ThingsCache(default_ttl=300)
DefaultRate == 30                       \* RateLimiter(operations_per_minute=30)
DefaultThreshold == 5                   \* CircuitBreaker(failure_threshold=5, ...)

----------------------------------------------------------------------------
(* Python truthiness of the string-coded values *)

Truthy(v) == v \notin {"None", "False", ""}

----------------------------------------------------------------------------
(* class CircuitBreaker *)

CLOSED == "closed"
OPEN == "open"
HALF_OPEN == "half-open"

CircuitBreaker(failure_threshold, recovery_timeout) ==
    [state |-> CLOSED,
     failure_count |-> 0,
     failure_threshold |-> failure_threshold,
     recovery_timeout |-> recovery_timeout,
     last_failure_time |-> 0]

(* mutant: the threshold test is > instead of >= *)
record_failure_late(self, t) ==
    LET n == self.failure_count + 1
    IN  [self EXCEPT !.failure_count = n,
                     !.last_failure_time = t,
                     !.state = IF n > self.failure_threshold THEN OPEN ELSE @]

(* mutant: the time of the failure is stamped only when the circuit opens from Closed *)
record_failure_nostamp(self, t) ==
    LET n == self.failure_count + 1
    IN  [self EXCEPT !.failure_count = n,
                     !.last_failure_time = IF self.state = CLOSED THEN t ELSE @,
                     !.state = IF n >= self.failure_threshold THEN OPEN ELSE @]

record_failure(self, t) ==
    LET n == self.failure_count + 1
    IN  [self EXCEPT !.failure_count = n,
                     !.last_failure_time = t,
                     !.state = IF n >= self.failure_threshold THEN OPEN ELSE @]

(* mutant: a success closes the circuit from Open as well *)
record_success_any(self) ==
    IF self.state \in {HALF_OPEN, OPEN}
    THEN [self EXCEPT !.state = CLOSED, !.failure_count = 0]
    ELSE [self EXCEPT !.failure_count = 0]

(* mutant: a success in Half-Open leaves the breaker as it is *)
record_success_closedOnly(self) ==
    IF self.state = CLOSED
    THEN [self EXCEPT !.failure_count = 0]
    ELSE self

record_success(self) ==
    IF self.state = HALF_OPEN
    THEN [self EXCEPT !.state = CLOSED, !.failure_count = 0]
    ELSE IF self.state = CLOSED
         THEN [self EXCEPT !.failure_count = 0]
         ELSE self

(* mutant: the recovery test is >= instead of > *)
allow_operation_early(self, t) ==
    IF self.state = CLOSED
    THEN [self |-> self, ret |-> TRUE]
    ELSE IF self.state = OPEN
         THEN IF t - self.last_failure_time >= self.recovery_timeout
              THEN [self |-> [self EXCEPT !.state = HALF_OPEN], ret |-> TRUE]
              ELSE [self |-> self, ret |-> FALSE]
         ELSE [self |-> self, ret |-> TRUE]

(* allow_operation returns a value and may change the state: both are given *)
allow_operation(self, t) ==
    IF self.state = CLOSED
    THEN [self |-> self, ret |-> TRUE]
    ELSE IF self.state = OPEN
         THEN IF t - self.last_failure_time > self.recovery_timeout
              THEN [self |-> [self EXCEPT !.state = HALF_OPEN], ret |-> TRUE]
              ELSE [self |-> self, ret |-> FALSE]
         ELSE [self |-> self, ret |-> TRUE]

----------------------------------------------------------------------------
(* Python dicts with string keys and values are sets of <<key, value>>      *)
(* pairs; KeyOrder is Python's order on the strings that occur as keys.     *)

KeyOrder == <<"a", "b", "id", "query", "title">>
KeyRank(k) == CHOOSE i \in 1..Len(KeyOrder) : KeyOrder[i] = k

(* dict.items(): the pairs one after the other *)
RECURSIVE Items(_)
Items(d) ==
    IF d = {} THEN <<>>
    ELSE LET first == CHOOSE p \in d : \A q \in d : KeyRank(p[1]) <= KeyRank(q[1])
         IN  <<first>> \o Items(d \ {first})

(* JSON documents, as json.dump writes them and json.load reads them *)
JsonString(s) == [json |-> "string", value |-> s]
JsonNumber(n) == [json |-> "number", value |-> n]
JsonObject(members) == [json |-> "object", members |-> members]
JsonArray(items) == [json |-> "array", items |-> items]

RECURSIVE DumpItems(_)
DumpItems(items) ==
    IF items = <<>> THEN <<>>
    ELSE <<<<Head(items)[1], JsonString(Head(items)[2])>>>> \o DumpItems(Tail(items))

DumpEntry(entry) ==
    JsonObject(<<<<"operation", JsonString(entry.operation)>>,
                 <<"params", JsonObject(DumpItems(Items(entry.params)))>>,
                 <<"error", JsonString(entry.error)>>,
                 <<"attempts", JsonNumber(entry.attempts)>>,
                 <<"timestamp", JsonNumber(entry.timestamp)>>>>)

(* mutant: the attempts of an entry are not written *)
RECURSIVE json_dump_noAttempts(_)
json_dump_noAttempts(queue) ==
    IF queue = <<>> THEN <<>>
    ELSE <<DumpEntry([Head(queue) EXCEPT !.attempts = 1])>>
         \o json_dump_noAttempts(Tail(queue))

(* json.dump(self.queue, f): the elements of the array *)
RECURSIVE json_dump(_)
json_dump(queue) ==
    IF queue = <<>> THEN <<>>
    ELSE <<DumpEntry(Head(queue))>> \o json_dump(Tail(queue))

Member(object, key) ==
    LET i == CHOOSE j \in 1..Len(object.members) : object.members[j][1] = key
    IN  object.members[i][2]

LoadEntry(object) ==
    [operation |-> Member(object, "operation").value,
     params |-> {<<Member(object, "params").members[i][1],
                   Member(object, "params").members[i][2].value>> :
                 i \in 1..Len(Member(object, "params").members)},
     error |-> Member(object, "error").value,
     attempts |-> Member(object, "attempts").value,
     timestamp |-> Member(object, "timestamp").value]

(* json.load(f): the list of the array's elements *)
RECURSIVE json_load(_)
json_load(items) ==
    IF items = <<>> THEN <<>>
    ELSE <<LoadEntry(Head(items))>> \o json_load(Tail(items))

----------------------------------------------------------------------------
(* class DeadLetterQueue: the file behind the queue *)

NoFile == [exists |-> FALSE, text |-> JsonArray(<<>>)]

(* _load_queue: the list in the file, [] when there is no file or it does   *)
(* not parse                                                                *)
_load_queue(file) ==
    IF file.exists /\ file.text.json = "array"
    THEN json_load(file.text.items)
    ELSE <<>>

(* _save_queue: the file after open(self.dlq_file, 'w') and json.dump *)
_save_queue(queue) == [exists |-> TRUE, text |-> JsonArray(json_dump(queue))]

(* no retry_all call is running and none has returned *)
IdleReplay == [pc |-> "idle", i |-> 1, success_count |-> 0, failure_count |-> 0,
               remaining_queue |-> <<>>,
               ret |-> [success |-> TRUE, retried |-> 0, failed |-> 0],
               before |-> <<>>, results |-> <<>>]

(* no handle_tool_call is running *)
IdleTool == [pc |-> "idle", name |-> "None",
             arguments |-> [none |-> TRUE, map |-> {}], response |-> "None"]

----------------------------------------------------------------------------
(* class ThingsCache and class RateLimiter: construction *)

EmptyDict == [k \in {} |-> k]

ThingsCache(default_ttl) ==
    [cache |-> EmptyDict, default_ttl |-> default_ttl, hit_count |-> 0,
     miss_count |-> 0]

NoCacheCall == [op |-> "none", operation |-> "None", kwargs |-> <<>>,
                ret |-> "None", present |-> FALSE]

(* operation_interval = 60 / operations_per_minute, in ticks *)
RateLimiter(operations_per_minute) ==
    [operations_per_minute |-> operations_per_minute,
     operation_interval |-> (60 * TicksPerSecond) \div operations_per_minute,
     last_operation_time |-> 0]

IdleLimiter == [pc |-> "idle", current_time |-> 0, wait_time |-> 0,
                returns |-> <<>>]

(* the global instances that the breaker and retry_operation do not use *)
(* no concurrent callers *)
NoThreads == <<>>

(* no is_things_running() call and no poll so far *)
NoBackend == [calls |-> <<>>, polls |-> <<>>,
              last |-> [at |-> 0, called |-> FALSE, answer |-> FALSE]]

(* simple_server: "cache = SimpleCache()" *)
SimpleCache == [cache |-> EmptyDict, timestamps |-> EmptyDict]

(* the list views of simple_server that are cached under a fixed key *)
Views == {"inbox", "today", "upcoming", "anytime", "someday"}

(* the Things database: the revision of each list view *)
NoThings == [v \in Views |-> 0]

IdleMore ==
    /\ threads = NoThreads
    /\ backend = NoBackend
    /\ cache = SimpleCache
    /\ things = NoThings

IdleSide ==
    /\ IdleMore
    /\ replay = IdleReplay
    /\ tool = IdleTool
    /\ _cache = ThingsCache(DefaultTtl)
    /\ cacheHist = [last |-> NoCacheCall, stored |-> {}]
    /\ rate_limiter = RateLimiter(DefaultRate)
    /\ limiter = IdleLimiter

----------------------------------------------------------------------------
(* The breaker under any sequence of calls *)

NoCall == [op |-> "none", ret |-> TRUE, at |-> 0,
           before |-> CircuitBreaker(1, 1)]

IdleRetry ==
    /\ app_state = [is_available |-> TRUE, last_check_time |-> StartTime]
    /\ dead_letter_queue = <<>>
    /\ pc = "idle"
    /\ args = [max_retries |-> 0, delay |-> 0, operation_name |-> "None",
               params |-> [none |-> TRUE, map |-> {}]]
    /\ attempt = 0
    /\ last_exception = "None"
    /\ start_time = 0
    /\ ret = "None"
    /\ outcome = "none"
    /\ log = <<>>
    /\ atCall = [queue |-> <<>>, breaker |-> CircuitBreaker(1, 1)]

Init ==
    /\ now = StartTime
    /\ \E ft \in 1..MaxThreshold, rt \in 1..MaxTimeout :
           circuit_breaker = CircuitBreaker(ft, rt)
    /\ last = NoCall
    /\ consec = 0
    /\ runClosed = TRUE
    /\ IdleRetry
    /\ dlq_file = NoFile
    /\ IdleSide

(* time passes between calls *)
Tick ==
    /\ now < MaxTime
    /\ now' = now + 1
    /\ UNCHANGED <<breakerVars, retryVars>>
    /\ UNCHANGED <<dlq_file, sideVars>>

CallRecordFailure ==
    /\ circuit_breaker.failure_count < MaxFailures
    /\ circuit_breaker' = record_failure(circuit_breaker, now)
    /\ last' = [op |-> "record_failure", ret |-> TRUE, at |-> now,
                before |-> circuit_breaker]
    /\ consec' = consec + 1
    /\ UNCHANGED <<now, runClosed, retryVars>>
    /\ UNCHANGED <<dlq_file, sideVars>>

CallRecordSuccess ==
    /\ circuit_breaker' = record_success(circuit_breaker)
    /\ last' = [op |-> "record_success", ret |-> TRUE, at |-> now,
                before |-> circuit_breaker]
    /\ consec' = 0
    /\ runClosed' = (circuit_breaker'.state = CLOSED)
    /\ UNCHANGED <<now, retryVars>>
    /\ UNCHANGED <<dlq_file, sideVars>>

CallAllowOperation ==
    /\ circuit_breaker' = allow_operation(circuit_breaker, now).self
    /\ last' = [op |-> "allow_operation",
                ret |-> allow_operation(circuit_breaker, now).ret,
                at |-> now, before |-> circuit_breaker]
    /\ UNCHANGED <<now, consec, runClosed, retryVars>>
    /\ UNCHANGED <<dlq_file, sideVars>>

Next ==
    \/ Tick
    \/ CallRecordFailure
    \/ CallRecordSuccess
    \/ CallAllowOperation

Spec == Init /\ [][Next]_vars

----------------------------------------------------------------------------
(* class ThingsAppState; is_things_running() is the environment's answer *)

(* mutant: the backend is asked again as soon as check_interval has passed *)
update_app_state_atLeast(self, t, running) ==
    IF t - self.last_check_time >= CheckInterval
    THEN [is_available |-> running, last_check_time |-> t]
    ELSE self

update_app_state(self, t, running) ==
    IF t - self.last_check_time > CheckInterval
    THEN [is_available |-> running, last_check_time |-> t]
    ELSE self

(* DeadLetterQueue.add_failed_operation: the queue with the entry appended; *)
(* the caller's action writes the file with _save_queue                    *)
add_failed_operation(queue, operation, params, error, attempts, t) ==
    Append(queue, [operation |-> operation, params |-> params, error |-> error,
                   attempts |-> attempts, timestamp |-> t])

----------------------------------------------------------------------------
(* retry_operation(func, max_retries, delay, operation_name, params) *)

OperationNames == {"None", "add-todo"}
ParamMaps == {{}, {<<"title", "x">>}}
ParamChoices == {[none |-> TRUE, map |-> {}]} \cup {[none |-> FALSE, map |-> m] : m \in ParamMaps}

(* what one call of func does: raise an exception with a text, or return a value *)
Errors == {"timeout"}
Values == {"task-1", "False"}
FuncOutcomes == {[kind |-> "raise", value |-> e] : e \in Errors}
                \cup {[kind |-> "return", value |-> v] : v \in Values}

(* params as Python sees it in a condition: None and {} are falsy *)
TruthyParams(params) == ~params.none /\ params.map # {}

(* mutant: only the value True counts as a success *)
IsSuccess_onlyTrue(r) == r.kind = "return" /\ r.value = "True"

(* mutant: any value but None counts as a success *)
IsSuccess_notNone(r) == r.kind = "return" /\ r.value # "None"

(* "if result:" after func() returned *)
IsSuccess(r) == r.kind = "return" /\ Truthy(r.value)

(* delay * (2 ** attempt), the wait without its jitter *)
BackoffDelay(delay, n) == delay * 2 ^ n

(* wait_time = delay * (2 ** attempt) * random.uniform(0.8, 1.2): the whole *)
(* numbers of ticks from 0.8 to 1.2 times the delay                         *)
WaitTimes(delay, n) ==
    ((BackoffDelay(delay, n) * 8 + 9) \div 10) .. ((BackoffDelay(delay, n) * 12) \div 10)

Event(ev, kind, value, n) == [ev |-> ev, kind |-> kind, value |-> value, n |-> n]

(* "return False" at the end of retry_operation *)
FailureReturn == "False"

(* "return value": the call is over *)
Return(kind, value) ==
    /\ pc' = "done"
    /\ ret' = value
    /\ outcome' = kind

(* an entry that the file may hold at start-up *)
StoredEntry == [operation |-> "update-todo", params |-> {<<"id", "1">>},
                error |-> "timeout", attempts |-> 3, timestamp |-> 0]

(* the module's global instances, as constructed when utils is imported;    *)
(* the breaker's threshold is drawn from 1..MaxThreshold and its recovery   *)
(* timeout is MaxTimeout ticks, so that it can elapse before MaxTime        *)
InitRetry ==
    /\ now = StartTime
    /\ \E ft \in 1..MaxThreshold :
           circuit_breaker = CircuitBreaker(ft, MaxTimeout)
    /\ last = NoCall
    /\ consec = 0
    /\ runClosed = TRUE
    /\ \E running \in BOOLEAN :
           app_state = [is_available |-> running, last_check_time |-> StartTime]
    /\ \E file \in {NoFile, _save_queue(<<StoredEntry>>)} :
           /\ dlq_file = file
           /\ dead_letter_queue = _load_queue(file)
    /\ pc = "idle"
    /\ args = [max_retries |-> 0, delay |-> 0, operation_name |-> "None",
               params |-> [none |-> TRUE, map |-> {}]]
    /\ attempt = 0
    /\ last_exception = "None"
    /\ start_time = 0
    /\ ret = "None"
    /\ outcome = "none"
    /\ log = <<>>
    /\ atCall = [queue |-> dead_letter_queue, breaker |-> circuit_breaker]
    /\ IdleSide

callVars == <<args, attempt, last_exception, start_time, ret, outcome, log, atCall>>

(* Before the call: time passes, and the operations that ran earlier have  *)
(* used the shared breaker (execute_url calls all three of its methods).   *)
Elapse ==
    /\ pc = "idle"
    /\ now < MaxTime
    /\ now' = now + 1
    /\ UNCHANGED <<breakerVars, app_state, dead_letter_queue, pc, callVars>>
    /\ UNCHANGED <<dlq_file, sideVars>>

EarlierFailure ==
    /\ pc = "idle"
    /\ circuit_breaker.failure_count < MaxFailures
    /\ circuit_breaker' = record_failure(circuit_breaker, now)
    /\ UNCHANGED <<now, last, consec, runClosed, app_state, dead_letter_queue, pc,
                   callVars>>
    /\ UNCHANGED <<dlq_file, sideVars>>

EarlierSuccess ==
    /\ pc = "idle"
    /\ circuit_breaker' = record_success(circuit_breaker)
    /\ UNCHANGED <<now, last, consec, runClosed, app_state, dead_letter_queue, pc,
                   callVars>>
    /\ UNCHANGED <<dlq_file, sideVars>>

EarlierAllow ==
    /\ pc = "idle"
    /\ circuit_breaker' = allow_operation(circuit_breaker, now).self
    /\ UNCHANGED <<now, last, consec, runClosed, app_state, dead_letter_queue, pc,
                   callVars>>
    /\ UNCHANGED <<dlq_file, sideVars>>

(* the call, up to start_time = time.time() in wait_for_app_availability *)
Call ==
    /\ pc = "idle"
    /\ \E mr \in 1..MaxRetries, d \in {DefaultDelay},
          name \in OperationNames, params \in ParamChoices :
           args' = [max_retries |-> mr, delay |-> d, operation_name |-> name,
                    params |-> params]
    /\ start_time' = now
    /\ attempt' = 0
    /\ last_exception' = "None"
    /\ log' = <<>>
    /\ ret' = "None"
    /\ outcome' = "running"
    /\ atCall' = [queue |-> dead_letter_queue, breaker |-> circuit_breaker]
    /\ pc' = "wait"
    /\ UNCHANGED <<now, breakerVars, app_state, dead_letter_queue>>
    /\ UNCHANGED <<dlq_file, sideVars>>

(* one turn of the loop of wait_for_app_availability, and the refusal after it *)
Poll ==
    /\ pc = "wait"
    /\ IF now - start_time < AvailTimeout
       THEN /\ \E running \in BOOLEAN :
                   app_state' = update_app_state(app_state, now, running)
            /\ pc' = IF app_state'.is_available THEN "gate" ELSE "poll_sleep"
            /\ UNCHANGED <<ret, outcome>>
       ELSE /\ Return("unavailable", "False")
            /\ UNCHANGED app_state
    /\ UNCHANGED <<now, breakerVars, dead_letter_queue, args, attempt,
                   last_exception, start_time, log, atCall>>
    /\ UNCHANGED <<dlq_file, sideVars>>

(* time.sleep(0.5) between two polls *)
PollWait ==
    /\ pc = "poll_sleep"
    /\ now + PollSleep <= MaxTime
    /\ now' = now + PollSleep
    /\ pc' = "wait"
    /\ UNCHANGED <<breakerVars, app_state, dead_letter_queue, callVars>>
    /\ UNCHANGED <<dlq_file, sideVars>>

(* mutant: the breaker's refusal is ignored and the call goes on *)
Gate_goesOn ==
    /\ pc = "gate"
    /\ circuit_breaker' = allow_operation(circuit_breaker, now).self
    /\ pc' = "attempt"
    /\ UNCHANGED <<now, last, consec, runClosed, app_state, dead_letter_queue,
                   callVars>>
    /\ UNCHANGED <<dlq_file, sideVars>>

(* "if not circuit_breaker.allow_operation(): return False" *)
Gate ==
    /\ pc = "gate"
    /\ circuit_breaker' = allow_operation(circuit_breaker, now).self
    /\ IF allow_operation(circuit_breaker, now).ret
       THEN pc' = "attempt" /\ UNCHANGED <<ret, outcome>>
       ELSE Return("blocked", "False")
    /\ UNCHANGED <<now, last, consec, runClosed, app_state, dead_letter_queue, args,
                   attempt, last_exception, start_time, log, atCall>>
    /\ UNCHANGED <<dlq_file, sideVars>>

(* mutant: the loop asks the breaker before every attempt *)
Attempt_gated ==
    IF allow_operation(circuit_breaker, now).ret
    THEN
    /\ pc = "attempt"
    /\ attempt < args.max_retries
    /\ \E r \in FuncOutcomes :
         LET called == Append(log, Event("invoke", r.kind, r.value, attempt))
         IN  IF IsSuccess(r)
             THEN /\ circuit_breaker' = record_success(circuit_breaker)
                  /\ log' = Append(called, Event("record_success", "", "", attempt))
                  /\ Return("success", r.value)
                  /\ UNCHANGED <<attempt, last_exception>>
             ELSE /\ circuit_breaker' = record_failure(circuit_breaker, now)
                  /\ log' = Append(called, Event("record_failure", "", "", attempt))
                  /\ last_exception' = IF r.kind = "raise" THEN r.value
                                       ELSE "Operation returned False"
                  /\ IF r.kind = "raise" /\ attempt < args.max_retries - 1
                     THEN pc' = "backoff" /\ UNCHANGED attempt
                     ELSE pc' = "attempt" /\ attempt' = attempt + 1
                  /\ UNCHANGED <<ret, outcome>>
    /\ UNCHANGED <<now, last, consec, runClosed, app_state, dead_letter_queue, args,
                   start_time, atCall>>
    /\ UNCHANGED <<dlq_file, sideVars>>
    ELSE /\ pc = "attempt"
         /\ attempt < args.max_retries
         /\ Return("blocked", "False")
         /\ UNCHANGED <<now, breakerVars, app_state, dead_letter_queue, args, attempt,
                        last_exception, start_time, log, atCall>>
         /\ UNCHANGED <<dlq_file, sideVars>>

(* one turn of the for loop: func() and what follows it, up to the sleep *)
Attempt ==
    /\ pc = "attempt"
    /\ attempt < args.max_retries
    /\ \E r \in FuncOutcomes :
         LET called == Append(log, Event("invoke", r.kind, r.value, attempt))
         IN  IF IsSuccess(r)
             THEN /\ circuit_breaker' = record_success(circuit_breaker)
                  /\ log' = Append(called, Event("record_success", "", "", attempt))
                  /\ Return("success", r.value)
                  /\ UNCHANGED <<attempt, last_exception>>
             ELSE /\ circuit_breaker' = record_failure(circuit_breaker, now)
                  /\ log' = Append(called, Event("record_failure", "", "", attempt))
                  /\ last_exception' = IF r.kind = "raise" THEN r.value
                                       ELSE "Operation returned False"
                  /\ IF r.kind = "raise" /\ attempt < args.max_retries - 1
                     THEN pc' = "backoff" /\ UNCHANGED attempt
                     ELSE pc' = "attempt" /\ attempt' = attempt + 1
                  /\ UNCHANGED <<ret, outcome>>
    /\ UNCHANGED <<now, last, consec, runClosed, app_state, dead_letter_queue, args,
                   start_time, atCall>>
    /\ UNCHANGED <<dlq_file, sideVars>>

(* time.sleep(wait_time) in the except branch *)
Backoff ==
    /\ pc = "backoff"
    /\ \E w \in WaitTimes(args.delay, attempt) :
           /\ now + w <= MaxTime
           /\ now' = now + w
    /\ log' = Append(log, Event("sleep", "", "", BackoffDelay(args.delay, attempt)))
    /\ attempt' = attempt + 1
    /\ pc' = "attempt"
    /\ UNCHANGED <<breakerVars, app_state, dead_letter_queue, args, last_exception,
                   start_time, ret, outcome, atCall>>
    /\ UNCHANGED <<dlq_file, sideVars>>

(* after the loop: the dead letter entry and "return False" *)
GiveUp ==
    /\ pc = "attempt"
    /\ attempt >= args.max_retries
    /\ IF Truthy(args.operation_name) /\ TruthyParams(args.params)
          /\ last_exception # "None"
       THEN /\ dead_letter_queue' =
                   add_failed_operation(dead_letter_queue, args.operation_name,
                                        args.params.map, last_exception,
                                        args.max_retries, now)
            /\ dlq_file' = _save_queue(dead_letter_queue')
            /\ log' = Append(log, Event("dlq", "", last_exception, args.max_retries))
       ELSE UNCHANGED <<dead_letter_queue, dlq_file, log>>
    /\ Return("failed", FailureReturn)
    /\ UNCHANGED <<now, breakerVars, app_state, args, attempt, last_exception,
                   start_time, atCall>>
    /\ UNCHANGED sideVars

NextRetry ==
    \/ Elapse
    \/ EarlierFailure
    \/ EarlierSuccess
    \/ EarlierAllow
    \/ Call
    \/ Poll
    \/ PollWait
    \/ Gate
    \/ Attempt
    \/ Backoff
    \/ GiveUp

RetrySpec == InitRetry /\ [][NextRetry]_vars

----------------------------------------------------------------------------
(* Claims about the CircuitBreaker, checked under Spec *)

BreakerEdges ==
    {<<CLOSED, OPEN>>, <<OPEN, HALF_OPEN>>, <<HALF_OPEN, CLOSED>>, <<HALF_OPEN, OPEN>>}

(* C1: whatever calls are made, a step that changes the breaker's state     *)
(* goes Closed->Open, Open->Half-Open, Half-Open->Closed or Half-Open->Open; *)
(* no other change of state occurs.                                         *)
C1_OnlyFourEdges ==
    [][circuit_breaker'.state # circuit_breaker.state
         => <<circuit_breaker.state, circuit_breaker'.state>> \in BreakerEdges]_vars

(* a record_success has just closed the breaker from Half-Open, after a     *)
(* full tour Closed -> Open -> Half-Open -> Closed                          *)
C1_Witness ==
    /\ last.op = "record_success"
    /\ last.before.state = HALF_OPEN
    /\ circuit_breaker.state = CLOSED

(* C2: with threshold N, a breaker that was Closed and has received N or    *)
(* more record_failure calls with no record_success in between is Open,     *)
(* and allow_operation returns false (and leaves it Open) at every instant  *)
(* no more than recovery_timeout after the last failure, also after one     *)
(* more failure; with fewer than N such failures it is Closed and           *)
(* allow_operation returns true.                                            *)
C2_OpensOnThreshold ==
    LET cb == circuit_breaker
        N == cb.failure_threshold
    IN  /\ (runClosed /\ consec >= N /\ last.op = "record_failure")
             => /\ cb.state = OPEN
                /\ \A t \in now..MaxTime :
                       t - cb.last_failure_time <= cb.recovery_timeout
                         => /\ allow_operation(cb, t).ret = FALSE
                            /\ allow_operation(cb, t).self.state = OPEN
        /\ (/\ runClosed /\ consec >= N /\ last.op = "allow_operation"
            /\ last.at - last.before.last_failure_time <= cb.recovery_timeout)
             => last.ret = FALSE /\ cb.state = OPEN
        /\ (runClosed /\ consec < N)
             => /\ cb.state = CLOSED
                /\ allow_operation(cb, now).ret = TRUE
                /\ last.op = "allow_operation" => last.ret = TRUE

(* one failure more than the threshold (of 2 or more), then a refused call *)
C2_Witness ==
    /\ runClosed
    /\ circuit_breaker.failure_threshold >= 2
    /\ consec = circuit_breaker.failure_threshold + 1
    /\ last.op = "allow_operation"
    /\ last.ret = FALSE

(* C3: an allow_operation call on an Open breaker returns false and leaves  *)
(* it Open when now - last_failure_time <= recovery_timeout; when           *)
(* now - last_failure_time > recovery_timeout it moves the breaker to       *)
(* Half-Open and returns true.                                              *)
C3_OpenGate ==
    (last.op = "allow_operation" /\ last.before.state = OPEN)
      => IF last.at - last.before.last_failure_time <= last.before.recovery_timeout
         THEN last.ret = FALSE /\ circuit_breaker.state = OPEN
         ELSE last.ret = TRUE /\ circuit_breaker.state = HALF_OPEN

(* the call that found the timeout elapsed by exactly one tick *)
C3_Witness ==
    /\ last.op = "allow_operation"
    /\ last.before.state = OPEN
    /\ last.at - last.before.last_failure_time = last.before.recovery_timeout + 1
    /\ circuit_breaker.state = HALF_OPEN

(* C4: Half-Open admits one trial call: once the breaker is Half-Open, an   *)
(* allow_operation call made before record_success or record_failure        *)
(* returns false.                                                           *)
C4_SingleTrial ==
    (last.op = "allow_operation" /\ last.before.state = HALF_OPEN)
      => last.ret = FALSE

(* C5: in Half-Open, record_success closes the breaker with failure_count   *)
(* 0, record_failure opens it again with last_failure_time the time of the  *)
(* call; and a Closed breaker allows every call.                            *)
C5_HalfOpenOutcome ==
    /\ (last.op = "record_success" /\ last.before.state = HALF_OPEN)
         => /\ circuit_breaker.state = CLOSED
            /\ circuit_breaker.failure_count = 0
    /\ (last.op = "record_failure" /\ last.before.state = HALF_OPEN)
         => /\ circuit_breaker.state = OPEN
            /\ circuit_breaker.last_failure_time = last.at
    /\ (last.op = "allow_operation" /\ last.before.state = CLOSED)
         => last.ret = TRUE /\ circuit_breaker.state = CLOSED

(* a trial that failed some time after the breaker opened *)
C5_Witness ==
    /\ last.op = "record_failure"
    /\ last.before.state = HALF_OPEN
    /\ last.at > last.before.last_failure_time
    /\ circuit_breaker.state = OPEN

----------------------------------------------------------------------------
(* Claims about retry_operation, checked under RetrySpec *)

Invokes == SelectSeq(log, LAMBDA e : e.ev = "invoke")
Refused == outcome \in {"unavailable", "blocked"}
FailureText(e) == IF e.kind = "raise" THEN e.value ELSE "Operation returned False"
ReturnedTruthy(e) == e.kind = "return" /\ Truthy(e.value)

(* C6: when both gates passed and every one of the max_retries attempts     *)
(* failed, and operation_name and a parameter mapping (any mapping) were    *)
(* supplied, the call has appended exactly one dead letter entry, with      *)
(* attempts = max_retries and the text of the last failure, has invoked     *)
(* func max_retries times and returns failure.                              *)
C6_ExhaustionRecorded ==
    (/\ pc = "done" /\ outcome = "failed"
     /\ Truthy(args.operation_name) /\ ~args.params.none)
      => /\ Len(dead_letter_queue) = Len(atCall.queue) + 1
         /\ SubSeq(dead_letter_queue, 1, Len(atCall.queue)) = atCall.queue
         /\ dead_letter_queue[Len(dead_letter_queue)].operation = args.operation_name
         /\ dead_letter_queue[Len(dead_letter_queue)].params = args.params.map
         /\ dead_letter_queue[Len(dead_letter_queue)].attempts = args.max_retries
         /\ dead_letter_queue[Len(dead_letter_queue)].error
              = FailureText(Invokes[Len(Invokes)])
         /\ Len(Invokes) = args.max_retries
         /\ ret = "False"

(* C7: a truthy return of func, after k < max_retries failed attempts,      *)
(* ends the call: func was invoked k+1 times, the value is returned,        *)
(* record_success was called on the breaker as the last thing, and the      *)
(* dead letter queue is as it was.                                          *)
C7_RetryThenSucceed ==
    /\ \A i \in 1..Len(Invokes) :
          ReturnedTruthy(Invokes[i])
            => /\ i = Len(Invokes)
               /\ i <= args.max_retries
               /\ pc = "done" /\ outcome = "success"
               /\ ret = Invokes[i].value
               /\ log[Len(log)].ev = "record_success"
               /\ dead_letter_queue = atCall.queue
    /\ (pc = "done" /\ outcome = "success")
          => /\ Len(Invokes) >= 1 /\ ReturnedTruthy(Invokes[Len(Invokes)])
             /\ circuit_breaker.state # HALF_OPEN
             /\ circuit_breaker.state = CLOSED => circuit_breaker.failure_count = 0

(* an exception, a falsy return, then success on the third attempt *)
C7_Witness ==
    /\ pc = "done" /\ outcome = "success"
    /\ Len(Invokes) = 3
    /\ Invokes[1].kind = "raise"
    /\ Invokes[2].kind = "return"
    /\ args.max_retries = 3
    /\ Truthy(ret)

(* C8: func is invoked only after the probe reported the target reachable   *)
(* and allow_operation returned true; a call refused at either gate         *)
(* returns failure having invoked nothing, recorded nothing on the breaker  *)
(* and added nothing to the dead letter queue.                              *)
C8_RefusedDoesNothing ==
    /\ (pc = "done" /\ Refused)
         => /\ ret = "False"
            /\ log = <<>>
            /\ dead_letter_queue = atCall.queue
            /\ circuit_breaker = atCall.breaker
    /\ (pc = "done" /\ outcome = "unavailable")
         => ~app_state.is_available /\ now - start_time >= AvailTimeout
    /\ (pc = "done" /\ outcome = "blocked")
         => /\ app_state.is_available
            /\ allow_operation(atCall.breaker, now).ret = FALSE
    /\ (pc = "attempt" /\ log = <<>>)
         => /\ app_state.is_available
            /\ circuit_breaker.state \in {CLOSED, HALF_OPEN}
    /\ log # <<>> => app_state.is_available /\ outcome \in {"running", "success", "failed"}

(* a call refused by the breaker, with an entry waiting in the queue *)
C8_Witness ==
    /\ pc = "done" /\ outcome = "blocked"
    /\ atCall.breaker.state = OPEN
    /\ dead_letter_queue # <<>>
    /\ args.operation_name = "add-todo"

(* C9, as amended: a successful call returns func's truthy result; a refused *)
(* call and a call whose retries are exhausted both return False.           *)
C9_SuccessOrFalse ==
    pc = "done"
      => /\ outcome \in {"success", "unavailable", "blocked", "failed"}
         /\ outcome = "success" => Truthy(ret)
         /\ outcome # "success" => ret = "False"

(* a call refused because the probe stayed down, reported by False *)
C9_Witness ==
    /\ pc = "done" /\ outcome = "unavailable"
    /\ ret = "False"

(* C9, as claimed: a refusal is never reported by the value that reports a   *)
(* terminal failure.                                                        *)
C9_ThreeSignals ==
    (pc = "done" /\ Refused) => ret # FailureReturn

(* C10: between a failed attempt (exception or falsy return) and the next   *)
(* attempt there is a backoff sleep, and its jitter-free delay is           *)
(* delay * 2^attempt, doubling from one retry to the next.                  *)
C10_BackoffAfterEveryFailure ==
    \A i \in 1..Len(log) :
       \A j \in (i + 1)..Len(log) :
          (/\ log[i].ev = "invoke" /\ log[j].ev = "invoke"
           /\ log[j].n = log[i].n + 1)
            => \E k \in (i + 1)..(j - 1) :
                  /\ log[k].ev = "sleep"
                  /\ log[k].n = BackoffDelay(args.delay, log[i].n)

----------------------------------------------------------------------------
(* The dead letter queue under add_failed_operation, retry_all and restarts *)

(* a breaker and a caller of retry_operation that are not in use *)
IdleBreaker ==
    /\ circuit_breaker = CircuitBreaker(5, 60 * TicksPerSecond)
    /\ last = NoCall
    /\ consec = 0
    /\ runClosed = TRUE

IdleCall ==
    /\ pc = "idle"
    /\ args = [max_retries |-> 0, delay |-> 0, operation_name |-> "None",
               params |-> [none |-> TRUE, map |-> {}]]
    /\ attempt = 0
    /\ last_exception = "None"
    /\ start_time = 0
    /\ ret = "None"
    /\ outcome = "none"
    /\ log = <<>>
    /\ atCall = [queue |-> <<>>, breaker |-> CircuitBreaker(1, 1)]

(* what add_failed_operation is called with *)
FailedParams == {{<<"title", "x">>}, {<<"id", "1">>, <<"query", "x">>}}
DefaultAttempts == 1    \* add_failed_operation(..., attempts=1)

(* what the replay of one entry comes to: the value returned by             *)
(* retry_operation(lambda: execute_url(url)), or "raise" when construct_url *)
(* or the replay raises; the steps of the replay itself are in RetrySpec    *)
ReplayOutcomes == {"True", "False", "raise"}

InitDlq ==
    /\ now = StartTime
    /\ IdleBreaker
    /\ app_state = [is_available |-> TRUE, last_check_time |-> StartTime]
    /\ \E file \in {NoFile, _save_queue(<<StoredEntry>>)} :
           /\ dlq_file = file
           /\ dead_letter_queue = _load_queue(file)
    /\ IdleCall
    /\ IdleSide

dlqFrame == <<breakerVars, app_state, pc, callVars, tool, _cache, cacheHist,
              rate_limiter, limiter, moreVars>>

DlqElapse ==
    /\ replay.pc # "loop"
    /\ now < StartTime + MaxDlqTime
    /\ now' = now + 1
    /\ UNCHANGED <<dead_letter_queue, dlq_file, replay, dlqFrame>>

(* add_failed_operation, called by retry_operation or by handle_tool_call *)
CallAddFailedOperation ==
    /\ replay.pc # "loop"
    /\ Len(dead_letter_queue) < MaxQueue
    /\ \E params \in FailedParams, attempts \in {DefaultAttempts, DefaultMaxRetries} :
           dead_letter_queue' =
               add_failed_operation(dead_letter_queue, "add-todo", params,
                                    "timeout", attempts, now)
    /\ dlq_file' = _save_queue(dead_letter_queue')
    /\ replay' = IdleReplay
    /\ UNCHANGED <<now, dlqFrame>>

(* retry_all, up to the for loop; an empty queue returns at once *)
RetryAllStart ==
    /\ replay.pc # "loop"
    /\ \A i \in 1..Len(dead_letter_queue) : dead_letter_queue[i].attempts < MaxAttempts
    /\ replay' = IF dead_letter_queue = <<>>
                 THEN [IdleReplay EXCEPT !.pc = "done"]
                 ELSE [IdleReplay EXCEPT !.pc = "loop", !.before = dead_letter_queue]
    /\ UNCHANGED <<now, dead_letter_queue, dlq_file, dlqFrame>>

(* mutant: an entry whose replay raises is dropped *)
ReplayEntry_dropsRaised ==
    /\ replay.pc = "loop"
    /\ replay.i <= Len(dead_letter_queue)
    /\ \E r \in ReplayOutcomes :
         IF r = "True"
         THEN /\ replay' = [replay EXCEPT !.i = @ + 1, !.success_count = @ + 1,
                                          !.results = Append(@, r)]
              /\ UNCHANGED dead_letter_queue
         ELSE /\ dead_letter_queue' =
                     [dead_letter_queue EXCEPT ![replay.i].attempts = @ + 1]
              /\ replay' = [replay EXCEPT
                     !.i = @ + 1,
                     !.failure_count = @ + 1,
                     !.remaining_queue =
                         IF r = "raise" THEN @
                         ELSE Append(@, dead_letter_queue'[replay.i]),
                     !.results = Append(@, r)]
    /\ UNCHANGED <<now, dlq_file, dlqFrame>>

(* one turn of the for loop: the entry is replayed; entry["attempts"] += 1  *)
(* changes the entry where it is, in self.queue                             *)
ReplayEntry ==
    /\ replay.pc = "loop"
    /\ replay.i <= Len(dead_letter_queue)
    /\ \E r \in ReplayOutcomes :
         IF r = "True"
         THEN /\ replay' = [replay EXCEPT !.i = @ + 1, !.success_count = @ + 1,
                                          !.results = Append(@, r)]
              /\ UNCHANGED dead_letter_queue
         ELSE /\ dead_letter_queue' =
                     [dead_letter_queue EXCEPT ![replay.i].attempts = @ + 1]
              /\ replay' = [replay EXCEPT
                     !.i = @ + 1,
                     !.failure_count = @ + 1,
                     !.remaining_queue = Append(@, dead_letter_queue'[replay.i]),
                     !.results = Append(@, r)]
    /\ UNCHANGED <<now, dlq_file, dlqFrame>>

(* after the loop: self.queue = remaining_queue, _save_queue(), the result *)
RetryAllFinish ==
    /\ replay.pc = "loop"
    /\ replay.i > Len(dead_letter_queue)
    /\ dead_letter_queue' = replay.remaining_queue
    /\ dlq_file' = _save_queue(dead_letter_queue')
    /\ replay' = [replay EXCEPT
           !.pc = "done",
           !.ret = [success |-> replay.failure_count = 0,
                    retried |-> replay.success_count + replay.failure_count,
                    failed |-> replay.failure_count]]
    /\ UNCHANGED <<now, dlqFrame>>

(* the process ends and starts again: DeadLetterQueue() on the same file *)
Restart ==
    /\ replay.pc # "loop"
    /\ dead_letter_queue' = _load_queue(dlq_file)
    /\ replay' = [IdleReplay EXCEPT !.pc = "restarted"]
    /\ UNCHANGED <<now, dlq_file, dlqFrame>>

NextDlq ==
    \/ DlqElapse
    \/ CallAddFailedOperation
    \/ RetryAllStart
    \/ ReplayEntry
    \/ RetryAllFinish
    \/ Restart

DlqSpec == InitDlq /\ [][NextDlq]_vars

(* the entries whose replay did not succeed, each with one more attempt *)
RECURSIVE Remaining(_, _)
Remaining(before, results) ==
    IF before = <<>> THEN <<>>
    ELSE (IF Head(results) = "True" THEN <<>>
          ELSE <<[Head(before) EXCEPT !.attempts = @ + 1]>>)
         \o Remaining(Tail(before), Tail(results))

(* C11: a retry_all call on a non-empty queue replays every entry once;     *)
(* the entries whose replay succeeded are gone, the others stay in their    *)
(* order with attempts one higher; retried is the number of entries         *)
(* replayed and failed the number that remain.                              *)
C11_RetryAllOutcome ==
    (replay.pc = "done" /\ replay.before # <<>>)
      => /\ Len(replay.results) = Len(replay.before)
         /\ dead_letter_queue = Remaining(replay.before, replay.results)
         /\ replay.ret.retried = Len(replay.before)
         /\ replay.ret.failed = Len(dead_letter_queue)

(* two entries replayed: the first succeeded, the second raised *)
C11_Witness ==
    /\ replay.pc = "done"
    /\ replay.results = <<"True", "raise">>
    /\ replay.ret = [success |-> FALSE, retried |-> 2, failed |-> 1]
    /\ Len(dead_letter_queue) = 1
    /\ dead_letter_queue[1].attempts = replay.before[2].attempts + 1

----------------------------------------------------------------------------
(* handle_tool_call(name, arguments) for the tools search-items and         *)
(* show-item; its retry_operation call runs the actions of RetrySpec        *)

ToolNames == {"search-items", "show-item"}
RequiredKey(name) == IF name = "search-items" THEN "query" ELSE "id"
Arguments == {[none |-> TRUE, map |-> {}], [none |-> FALSE, map |-> {}],
              [none |-> FALSE, map |-> {<<"query", "x">>}],
              [none |-> FALSE, map |-> {<<"id", "1">>}]}
HasKey(arguments, key) == \E p \in arguments.map : p[1] = key
Lookup(arguments, key) == (CHOOSE p \in arguments.map : p[1] = key)[2]

(* "if not arguments or key not in arguments: raise ValueError(...)" *)
Invalid(name, arguments) ==
    ~TruthyParams(arguments) \/ ~HasKey(arguments, RequiredKey(name))

(* "except Exception as e": the queue after the handler's failure branch *)
HandlerFailure(queue, name, arguments, error, t) ==
    IF TruthyParams(arguments)
    THEN add_failed_operation(queue, name, arguments.map, error, DefaultAttempts, t)
    ELSE queue

(* the call, up to start_time = time.time() inside retry_operation; a       *)
(* request that fails validation goes to the failure branch at once         *)
ToolCall ==
    /\ tool.pc = "idle"
    /\ pc = "idle"
    /\ \E name \in ToolNames, arguments \in Arguments :
         /\ atCall' = [queue |-> dead_letter_queue, breaker |-> circuit_breaker]
         /\ log' = <<>>
         /\ IF Invalid(name, arguments)
            THEN /\ dead_letter_queue' =
                        HandlerFailure(dead_letter_queue, name, arguments,
                                       "Missing " \o RequiredKey(name) \o " parameter",
                                       now)
                 /\ dlq_file' = IF TruthyParams(arguments)
                                THEN _save_queue(dead_letter_queue')
                                ELSE dlq_file
                 /\ tool' = [pc |-> "done", name |-> name, arguments |-> arguments,
                             response |-> "error"]
                 /\ UNCHANGED <<pc, args, attempt, last_exception, start_time, ret,
                                outcome>>
            ELSE /\ args' = [max_retries |-> DefaultMaxRetries,
                             delay |-> DefaultDelay,
                             operation_name |-> IF name = "search-items" THEN name
                                                ELSE "None",
                             params |-> IF name = "search-items"
                                        THEN [none |-> FALSE,
                                              map |-> {<<"query",
                                                         Lookup(arguments, "query")>>}]
                                        ELSE [none |-> TRUE, map |-> {}]]
                 /\ start_time' = now
                 /\ attempt' = 0
                 /\ last_exception' = "None"
                 /\ ret' = "None"
                 /\ outcome' = "running"
                 /\ pc' = "wait"
                 /\ tool' = [pc |-> "retrying", name |-> name,
                             arguments |-> arguments, response |-> "None"]
                 /\ UNCHANGED <<dead_letter_queue, dlq_file>>
    /\ UNCHANGED <<now, breakerVars, app_state, replay, _cache, cacheHist,
                   rate_limiter, limiter, moreVars>>

(* after retry_operation returned: the answer, or "if not success: raise    *)
(* RuntimeError(...)" and the failure branch                                *)
ToolReturn ==
    /\ tool.pc = "retrying"
    /\ pc = "done"
    /\ IF Truthy(ret)
       THEN /\ tool' = [tool EXCEPT !.pc = "done", !.response = "ok"]
            /\ UNCHANGED <<dead_letter_queue, dlq_file>>
       ELSE /\ dead_letter_queue' =
                   HandlerFailure(dead_letter_queue, tool.name, tool.arguments,
                                  "Failed: " \o tool.name, now)
            /\ dlq_file' = _save_queue(dead_letter_queue')
            /\ tool' = [tool EXCEPT !.pc = "done", !.response = "error"]
    /\ UNCHANGED <<now, breakerVars, app_state, pc, callVars, replay, _cache,
                   cacheHist, rate_limiter, limiter, moreVars>>

NextTool ==
    \/ EarlierFailure
    \/ ToolCall
    \/ Poll
    \/ PollWait
    \/ Gate
    \/ Attempt
    \/ Backoff
    \/ GiveUp
    \/ ToolReturn

ToolSpec == InitRetry /\ [][NextTool]_vars

(* C13: the attempts of an entry never go down, and an entry that a tool    *)
(* call has recorded, through retry_operation or through the failure        *)
(* branch of handle_tool_call, carries the number of attempts that          *)
(* retry_operation made for the call.                                       *)
C13_AttemptsRecorded ==
    tool.pc = "done"
      => /\ Len(dead_letter_queue) >= Len(atCall.queue)
         /\ \A i \in 1..Len(atCall.queue) :
               dead_letter_queue[i].attempts >= atCall.queue[i].attempts
         /\ \A i \in (Len(atCall.queue) + 1)..Len(dead_letter_queue) :
               dead_letter_queue[i].attempts = Len(Invokes)

----------------------------------------------------------------------------
(* class ThingsCache *)

(* hashlib.md5(s.encode()).hexdigest() of the strings that occur, as the    *)
(* first 8 hexadecimal digits and the 24 that follow                        *)
md5(s) ==
    CASE s = "today:" -> [head |-> "5b7afecf", tail |-> "19b6e0f4c5f6112483ee90e1"]
      [] s = "today:{}" -> [head |-> "9c4f0620", tail |-> "19232f5f4bba2a911f9e2978"]
      [] s = "today:{\"a\": \"1\"}" ->
             [head |-> "fd4d612e", tail |-> "1d890d860e77bc77b9cf5aca"]
      [] s = "today:{\"b\": \"1\"}" ->
             [head |-> "eebf10b6", tail |-> "d8a3137266ea7c93d57998d6"]
      [] s = "today:{\"a\": \"1\", \"b\": \"1\"}" ->
             [head |-> "48384faf", tail |-> "708a857bf32f10f79d177aac"]
      [] s = "today:{\"b\": \"1\", \"a\": \"1\"}" ->
             [head |-> "01e7d1ab", tail |-> "c52e949a42dead9c775b94cf"]
      [] s = "inbox:" -> [head |-> "fca6a577", tail |-> "b7736eacbfa319db250fba8b"]
      [] s = "inbox:{}" -> [head |-> "9e033b53", tail |-> "abee0a81079db5add4e474e6"]
      [] s = "inbox:{\"a\": \"1\"}" ->
             [head |-> "8606ac40", tail |-> "e0a512d0664a88accdc6e899"]
      [] s = "inbox:{\"b\": \"1\"}" ->
             [head |-> "29610819", tail |-> "7f3026047447963af5d4f841"]
      [] s = "inbox:{\"a\": \"1\", \"b\": \"1\"}" ->
             [head |-> "466f2d7a", tail |-> "a4eb10688fbb6db4852a8dc6"]
      [] s = "inbox:{\"b\": \"1\", \"a\": \"1\"}" ->
             [head |-> "32b42cea", tail |-> "1354cbe093422bb279e84162"]

(* k.startswith(prefix) for a prefix of 8 digits *)
startswith(k, prefix) == k.head = prefix

(* **kwargs is the sequence of <<key, value>> pairs in the order supplied;  *)
(* Mapping is the dict it makes                                             *)
Mapping(kwargs) == {kwargs[i] : i \in 1..Len(kwargs)}

(* json.dumps of a dict whose items come in the given order *)
RECURSIVE JoinItems(_)
JoinItems(items) ==
    IF items = <<>> THEN ""
    ELSE "\"" \o Head(items)[1] \o "\": \"" \o Head(items)[2] \o "\""
         \o (IF Tail(items) = <<>> THEN "" ELSE ", " \o JoinItems(Tail(items)))

json_dumps(items) == "{" \o JoinItems(items) \o "}"

(* mutant: the parameters are written in the order supplied *)
_make_key_unsorted(operation, kwargs) ==
    md5(operation \o ":" \o json_dumps(kwargs))

(* _make_key: json.dumps(kwargs, sort_keys=True) writes the items by key *)
_make_key(operation, kwargs) ==
    md5(operation \o ":" \o json_dumps(Items(Mapping(kwargs))))

Put(dict, key, value) ==
    [k \in DOMAIN dict \cup {key} |-> IF k = key THEN value ELSE dict[k]]
Del(dict, key) == [k \in DOMAIN dict \ {key} |-> dict[k]]

(* mutant: an entry is still a hit at its expiry instant *)
get_late(self, operation, kwargs, t) ==
    LET key == _make_key(operation, kwargs)
    IN  IF key \in DOMAIN self.cache
        THEN IF t <= self.cache[key].expiry_time
             THEN [self |-> [self EXCEPT !.hit_count = @ + 1],
                   ret |-> self.cache[key].value]
             ELSE [self |-> [self EXCEPT !.cache = Del(@, key),
                                         !.miss_count = @ + 1],
                   ret |-> "None"]
        ELSE [self |-> [self EXCEPT !.miss_count = @ + 1], ret |-> "None"]

(* mutant: an expired entry is left in the cache *)
get_keepsExpired(self, operation, kwargs, t) ==
    LET key == _make_key(operation, kwargs)
    IN  IF key \in DOMAIN self.cache /\ t < self.cache[key].expiry_time
        THEN [self |-> [self EXCEPT !.hit_count = @ + 1],
              ret |-> self.cache[key].value]
        ELSE [self |-> [self EXCEPT !.miss_count = @ + 1], ret |-> "None"]

(* get returns the value, or None for a miss, and changes the cache *)
get(self, operation, kwargs, t) ==
    LET key == _make_key(operation, kwargs)
    IN  IF key \in DOMAIN self.cache
        THEN IF t < self.cache[key].expiry_time
             THEN [self |-> [self EXCEPT !.hit_count = @ + 1],
                   ret |-> self.cache[key].value]
             ELSE [self |-> [self EXCEPT !.cache = Del(@, key),
                                         !.miss_count = @ + 1],
                   ret |-> "None"]
        ELSE [self |-> [self EXCEPT !.miss_count = @ + 1], ret |-> "None"]

(* "ttl if ttl is not None else self.default_ttl", in ticks *)
TtlTicks(self, ttl) == IF ttl.none THEN self.default_ttl
                       ELSE ttl.seconds * TicksPerSecond

(* mutant: a key already stored keeps its entry *)
set_keepsFirst(self, operation, value, ttl, kwargs, t) ==
    IF _make_key(operation, kwargs) \in DOMAIN self.cache
    THEN self
    ELSE [self EXCEPT !.cache =
            Put(@, _make_key(operation, kwargs),
                [value |-> value, expiry_time |-> t + TtlTicks(self, ttl)])]

set(self, operation, value, ttl, kwargs, t) ==
    [self EXCEPT !.cache =
        Put(@, _make_key(operation, kwargs),
            [value |-> value, expiry_time |-> t + TtlTicks(self, ttl)])]

(* mutant: the branch for one entry clears the cache *)
invalidate_clears(self, operation, kwargs) ==
    IF Truthy(operation) /\ kwargs # <<>>
    THEN [self EXCEPT !.cache = EmptyDict]
    ELSE IF Truthy(operation)
         THEN [self EXCEPT !.cache =
                  [k \in {x \in DOMAIN @ :
                            ~startswith(x, md5(operation \o ":").head)} |-> @[k]]]
         ELSE [self EXCEPT !.cache = EmptyDict]

invalidate(self, operation, kwargs) ==
    IF Truthy(operation) /\ kwargs # <<>>
    THEN [self EXCEPT !.cache = Del(@, _make_key(operation, kwargs))]
    ELSE IF Truthy(operation)
         THEN [self EXCEPT !.cache =
                  [k \in {x \in DOMAIN @ :
                            ~startswith(x, md5(operation \o ":").head)} |-> @[k]]]
         ELSE [self EXCEPT !.cache = EmptyDict]

(* mutant: an entry whose expiry instant is the sweep time is kept *)
cleanup_expired_strict(self, t) ==
    LET keys_to_remove == {k \in DOMAIN self.cache : t > self.cache[k].expiry_time}
    IN  [self |-> [self EXCEPT !.cache = [k \in DOMAIN @ \ keys_to_remove |-> @[k]]],
         ret |-> Cardinality(keys_to_remove)]

(* cleanup_expired returns the number of entries removed *)
cleanup_expired(self, t) ==
    LET keys_to_remove == {k \in DOMAIN self.cache : t >= self.cache[k].expiry_time}
    IN  [self |-> [self EXCEPT !.cache = [k \in DOMAIN @ \ keys_to_remove |-> @[k]]],
         ret |-> Cardinality(keys_to_remove)]

----------------------------------------------------------------------------
(* The cache under any sequence of calls *)

CacheOperations == {"today", "inbox"}
KwargsChoices == {<<>>, <<<<"a", "1">>, <<"b", "1">>>>, <<<<"b", "1">>, <<"a", "1">>>>}
CacheValues == {"A", "B"}
TtlChoices == {[none |-> TRUE, seconds |-> 0], [none |-> FALSE, seconds |-> 0],
               [none |-> FALSE, seconds |-> 1]}

InitCache ==
    /\ now = StartTime
    /\ IdleBreaker
    /\ IdleRetry
    /\ dlq_file = NoFile
    /\ IdleSide

cacheFrame == <<breakerVars, retryVars, dlq_file, replay, tool, rate_limiter,
                limiter, moreVars>>

CacheCall(op, operation, kwargs, result, present) ==
    [op |-> op, operation |-> operation, kwargs |-> kwargs, ret |-> result,
     present |-> present]

(* the call is aimed at what the set call s stored *)
Aimed(operation, kwargs, s) ==
    \/ ~Truthy(operation)
    \/ kwargs = <<>> /\ s.operation = operation
    \/ s.operation = operation /\ Mapping(s.kwargs) = Mapping(kwargs)

(* the set calls with ttl > 0 that no later set has overwritten and at      *)
(* which no later invalidate was aimed, each with its expiry instant        *)
Stored(stored, operation, kwargs, value, ticks, t) ==
    {s \in stored : ~(s.operation = operation /\ Mapping(s.kwargs) = Mapping(kwargs))}
    \cup (IF ticks > 0
          THEN {[operation |-> operation, kwargs |-> kwargs, value |-> value,
                 expiry |-> t + ticks]}
          ELSE {})

(* a second passes *)
CacheTick ==
    /\ now + TicksPerSecond <= StartTime + MaxCacheTime * TicksPerSecond
    /\ now' = now + TicksPerSecond
    /\ UNCHANGED <<_cache, cacheHist, cacheFrame>>

CallGet ==
    /\ _cache.hit_count + _cache.miss_count < MaxGets
    /\ \E operation \in CacheOperations, kwargs \in KwargsChoices :
         /\ _cache' = get(_cache, operation, kwargs, now).self
         /\ cacheHist' = [cacheHist EXCEPT !.last =
                CacheCall("get", operation, kwargs,
                          get(_cache, operation, kwargs, now).ret,
                          _make_key(operation, kwargs) \in DOMAIN _cache.cache)]
    /\ UNCHANGED <<now, cacheFrame>>

(* one set call *)
SetCall(operation, kwargs, value, ttl) ==
    /\ \/ _make_key(operation, kwargs) \in DOMAIN _cache.cache
       \/ Cardinality(DOMAIN _cache.cache) < MaxEntries
    /\ _cache' = set(_cache, operation, value, ttl, kwargs, now)
    /\ cacheHist' =
         [last |-> CacheCall("set", operation, kwargs, "None",
                             _make_key(operation, kwargs) \in DOMAIN _cache.cache),
          stored |-> Stored(cacheHist.stored, operation, kwargs, value,
                            TtlTicks(_cache, ttl), now)]
    /\ UNCHANGED <<now, cacheFrame>>

(* while time passes: one operation, every ttl *)
CallSet ==
    \E kwargs \in KwargsChoices, value \in CacheValues, ttl \in TtlChoices :
        SetCall("today", kwargs, value, ttl)

(* while no time passes: every operation, the default ttl *)
CallSetDefault ==
    \E operation \in CacheOperations, kwargs \in KwargsChoices,
       value \in CacheValues :
        SetCall(operation, kwargs, value, [none |-> TRUE, seconds |-> 0])

CallInvalidate ==
    /\ \E operation \in CacheOperations \cup {"None"}, kwargs \in KwargsChoices :
         /\ Truthy(operation) \/ kwargs = <<>>
         /\ _cache' = invalidate(_cache, operation, kwargs)
         /\ cacheHist' =
              [last |-> CacheCall("invalidate", operation, kwargs, "None",
                                  /\ Truthy(operation)
                                  /\ _make_key(operation, kwargs) \in DOMAIN _cache.cache),
               stored |-> {s \in cacheHist.stored : ~Aimed(operation, kwargs, s)}]
    /\ UNCHANGED <<now, cacheFrame>>

CallCleanupExpired ==
    /\ _cache' = cleanup_expired(_cache, now).self
    /\ cacheHist' = [cacheHist EXCEPT !.last =
           CacheCall("cleanup_expired", "None", <<>>,
                     ToString(cleanup_expired(_cache, now).ret), FALSE)]
    /\ UNCHANGED <<now, cacheFrame>>

NextCache ==
    \/ CacheTick
    \/ CallGet
    \/ CallSet
    \/ CallInvalidate
    \/ CallCleanupExpired

CacheSpec == InitCache /\ [][NextCache]_vars

NextInvalidate ==
    \/ CallSetDefault
    \/ CallInvalidate
    \/ CallGet

InvalidateSpec == InitCache /\ [][NextInvalidate]_vars

----------------------------------------------------------------------------
(* Claims about ThingsCache. A step that leaves now as it is is a call, and *)
(* cacheHist'.last tells which; the unprimed variables are the state before *)
(* the call and the primed ones the state after it.                         *)

CalledKey(call) == _make_key(call.operation, call.kwargs)

(* the other entries are in the cache as they were and nothing was added *)
OthersKept(before, after, key) ==
    /\ \A k \in DOMAIN before \ {key} : k \in DOMAIN after /\ after[k] = before[k]
    /\ DOMAIN after \subseteq DOMAIN before

(* C14: after a set with ttl > 0 that no set has overwritten and at which   *)
(* no invalidate was aimed, under the same operation and parameters a get   *)
(* before the expiry instant returns the value and a get at or after it     *)
(* returns a miss.                                                          *)
C14_HitUntilExpiry ==
    [][(now' = now /\ cacheHist'.last.op = "get")
        => \A s \in cacheHist.stored :
             (/\ s.operation = cacheHist'.last.operation
              /\ Mapping(s.kwargs) = Mapping(cacheHist'.last.kwargs))
               => cacheHist'.last.ret = IF now < s.expiry THEN s.value
                                        ELSE "None"]_vars

(* a get that found the stored entry at or after its expiry and missed *)
C14_Witness ==
    /\ cacheHist.last.op = "get"
    /\ cacheHist.last.present
    /\ cacheHist.last.ret = "None"
    /\ \E s \in cacheHist.stored :
          /\ s.operation = cacheHist.last.operation
          /\ Mapping(s.kwargs) = Mapping(cacheHist.last.kwargs)
          /\ s.expiry = StartTime + TicksPerSecond
          /\ now >= s.expiry

(* C15: invalidate(operation) without parameters removes every entry of     *)
(* that operation, so that a get for it misses, and leaves the entries of   *)
(* the other operations retrievable with their values.                      *)
C15_InvalidateOperation ==
    [][(/\ now' = now /\ cacheHist'.last.op = "invalidate"
        /\ Truthy(cacheHist'.last.operation) /\ cacheHist'.last.kwargs = <<>>)
        => /\ \A kwargs \in KwargsChoices :
                 get(_cache', cacheHist'.last.operation, kwargs, now).ret = "None"
           /\ \A operation \in CacheOperations \ {cacheHist'.last.operation},
                 kwargs \in KwargsChoices :
                 get(_cache', operation, kwargs, now).ret
                   = get(_cache, operation, kwargs, now).ret]_vars

(* C16, as amended: invalidate(operation, params) with an operation name    *)
(* and a non-empty parameter mapping removes the entry of that operation    *)
(* and mapping and leaves every other entry as it was.                      *)
C16_InvalidateEntry ==
    [][(/\ now' = now /\ cacheHist'.last.op = "invalidate"
        /\ Truthy(cacheHist'.last.operation) /\ cacheHist'.last.kwargs # <<>>)
        => /\ CalledKey(cacheHist'.last) \notin DOMAIN _cache'.cache
           /\ OthersKept(_cache.cache, _cache'.cache, CalledKey(cacheHist'.last))]_vars

(* an entry with two parameters was removed; the entry of the same          *)
(* operation without parameters is still there                              *)
C16_Witness ==
    /\ cacheHist.last.op = "invalidate"
    /\ Len(cacheHist.last.kwargs) = 2
    /\ cacheHist.last.present
    /\ CalledKey(cacheHist.last) \notin DOMAIN _cache.cache
    /\ _make_key(cacheHist.last.operation, <<>>) \in DOMAIN _cache.cache

(* C16, as claimed: for every parameter mapping stored with set, the empty  *)
(* one too, invalidate(operation, params) removes that entry and leaves     *)
(* the others.                                                              *)
C16_AnyMapping ==
    [][(/\ now' = now /\ cacheHist'.last.op = "invalidate"
        /\ Truthy(cacheHist'.last.operation)
        /\ CalledKey(cacheHist'.last) \in DOMAIN _cache.cache)
        => /\ CalledKey(cacheHist'.last) \notin DOMAIN _cache'.cache
           /\ OthersKept(_cache.cache, _cache'.cache, CalledKey(cacheHist'.last))]_vars

(* C17: a get on an entry whose expiry instant has been reached returns a   *)
(* miss, adds one to miss_count and nothing to hit_count, and removes the   *)
(* entry, leaving the other entries in place.                               *)
C17_ExpiredGet ==
    [][(/\ now' = now /\ cacheHist'.last.op = "get"
        /\ CalledKey(cacheHist'.last) \in DOMAIN _cache.cache
        /\ now >= _cache.cache[CalledKey(cacheHist'.last)].expiry_time)
        => /\ cacheHist'.last.ret = "None"
           /\ _cache'.miss_count = _cache.miss_count + 1
           /\ _cache'.hit_count = _cache.hit_count
           /\ CalledKey(cacheHist'.last) \notin DOMAIN _cache'.cache
           /\ OthersKept(_cache.cache, _cache'.cache, CalledKey(cacheHist'.last))]_vars

(* the get removed an expired entry and another entry is still there *)
C17_Witness ==
    /\ cacheHist.last.op = "get"
    /\ cacheHist.last.present
    /\ cacheHist.last.ret = "None"
    /\ _cache.miss_count = 1 /\ _cache.hit_count = 0
    /\ CalledKey(cacheHist.last) \notin DOMAIN _cache.cache
    /\ Cardinality(DOMAIN _cache.cache) = 1

(* C18: the entry that a set call stores has an expiry instant later than   *)
(* the instant of the call, for every ttl.                                  *)
C18_ExpiryAfterStore ==
    [][(now' = now /\ cacheHist'.last.op = "set")
        => _cache'.cache[CalledKey(cacheHist'.last)].expiry_time > now]_vars

(* C19: two orders of the same parameters give the same key, and a get      *)
(* with the parameters in another order than the set's is a hit on the      *)
(* entry the set stored.                                                    *)
C19_KeyIgnoresOrder ==
    /\ \A operation \in CacheOperations, k1 \in KwargsChoices, k2 \in KwargsChoices :
          Mapping(k1) = Mapping(k2) => _make_key(operation, k1) = _make_key(operation, k2)
    /\ [][(now' = now /\ cacheHist'.last.op = "get")
           => \A s \in cacheHist.stored :
                (/\ s.operation = cacheHist'.last.operation
                 /\ Mapping(s.kwargs) = Mapping(cacheHist'.last.kwargs)
                 /\ s.kwargs # cacheHist'.last.kwargs
                 /\ now < s.expiry)
                  => /\ cacheHist'.last.ret = s.value
                     /\ _cache'.hit_count = _cache.hit_count + 1
                     /\ _cache'.cache = _cache.cache]_vars

(* a hit with the parameters in the other order than the set's *)
C19_Witness ==
    /\ cacheHist.last.op = "get"
    /\ cacheHist.last.ret \in CacheValues
    /\ _cache.hit_count = 1
    /\ \E s \in cacheHist.stored :
          /\ s.operation = cacheHist.last.operation
          /\ Mapping(s.kwargs) = Mapping(cacheHist.last.kwargs)
          /\ s.kwargs # cacheHist.last.kwargs

----------------------------------------------------------------------------
(* class RateLimiter, with one caller *)

RateChoices == {30, 40, 60, 120}

(* mutant: the wait is one tick short *)
wait_time_short(self, t) ==
    LET time_since_last == t - self.last_operation_time
    IN  IF time_since_last < self.operation_interval
        THEN self.operation_interval - time_since_last - 1
        ELSE 0

(* wait_time of wait_if_needed, 0 when it does not sleep *)
wait_time(self, t) ==
    LET time_since_last == t - self.last_operation_time
    IN  IF time_since_last < self.operation_interval
        THEN self.operation_interval - time_since_last
        ELSE 0

InitRate ==
    /\ now = StartTime
    /\ IdleBreaker
    /\ IdleRetry
    /\ dlq_file = NoFile
    /\ replay = IdleReplay
    /\ tool = IdleTool
    /\ _cache = ThingsCache(DefaultTtl)
    /\ cacheHist = [last |-> NoCacheCall, stored |-> {}]
    /\ \E operations_per_minute \in RateChoices :
           rate_limiter = RateLimiter(operations_per_minute)
    /\ limiter = IdleLimiter
    /\ IdleMore

rateFrame == <<breakerVars, retryVars, dlq_file, replay, tool, _cache, cacheHist,
              moreVars>>

(* the last two returns *)
Returned(returns, t) ==
    IF Len(returns) < 2 THEN Append(returns, t) ELSE <<returns[2], t>>

(* time passes between two calls *)
RateElapse ==
    /\ limiter.pc = "idle"
    /\ now < MaxTime
    /\ now' = now + 1
    /\ UNCHANGED <<rate_limiter, limiter, rateFrame>>

(* wait_if_needed up to time.sleep(wait_time); without a wait it stamps     *)
(* last_operation_time and returns                                          *)
WaitIfNeeded ==
    /\ limiter.pc = "idle"
    /\ IF wait_time(rate_limiter, now) > 0
       THEN /\ limiter' = [limiter EXCEPT !.pc = "sleep", !.current_time = now,
                                          !.wait_time = wait_time(rate_limiter, now)]
            /\ UNCHANGED rate_limiter
       ELSE /\ rate_limiter' = [rate_limiter EXCEPT !.last_operation_time = now]
            /\ limiter' = [limiter EXCEPT !.current_time = now, !.wait_time = 0,
                                          !.returns = Returned(@, now)]
    /\ UNCHANGED <<now, rateFrame>>

(* time.sleep(wait_time) ends, at the earliest after wait_time; then        *)
(* self.last_operation_time = time.time() and the return                    *)
WakeUp ==
    /\ limiter.pc = "sleep"
    /\ \E late \in 0..1 :
           /\ now + limiter.wait_time + late <= MaxTime
           /\ now' = now + limiter.wait_time + late
    /\ rate_limiter' = [rate_limiter EXCEPT !.last_operation_time = now']
    /\ limiter' = [limiter EXCEPT !.pc = "idle", !.returns = Returned(@, now')]
    /\ UNCHANGED rateFrame

NextRate ==
    \/ RateElapse
    \/ WaitIfNeeded
    \/ WakeUp

RateSpec == InitRate /\ [][NextRate]_vars

(* C20: two consecutive returns of wait_if_needed are at least              *)
(* operation_interval apart, and last_operation_time is the time of the     *)
(* latest return.                                                           *)
C20_Spacing ==
    /\ Len(limiter.returns) = 2
         => limiter.returns[2] - limiter.returns[1] >= rate_limiter.operation_interval
    /\ limiter.returns # <<>>
         => rate_limiter.last_operation_time = limiter.returns[Len(limiter.returns)]

(* the second call came one tick after the first and slept for the rest of  *)
(* an interval of two seconds                                               *)
C20_Witness ==
    /\ limiter.pc = "idle"
    /\ Len(limiter.returns) = 2
    /\ rate_limiter.operation_interval = 2 * TicksPerSecond
    /\ limiter.wait_time = rate_limiter.operation_interval - 1
    /\ limiter.returns[2] - limiter.returns[1] = rate_limiter.operation_interval

----------------------------------------------------------------------------
(* RateLimiter.wait_if_needed called by two threads on the shared instance. *)
(* The class holds no lock, so the read of last_operation_time, the sleep   *)
(* and the write of last_operation_time are steps that interleave.          *)

Callers == {1, 2}

IdleCaller == [pc |-> "idle", current_time |-> 0, wait_time |-> 0]

InitConcRate ==
    /\ now = StartTime
    /\ IdleBreaker
    /\ IdleRetry
    /\ dlq_file = NoFile
    /\ replay = IdleReplay
    /\ tool = IdleTool
    /\ _cache = ThingsCache(DefaultTtl)
    /\ cacheHist = [last |-> NoCacheCall, stored |-> {}]
    /\ \E operations_per_minute \in RateChoices :
           rate_limiter = RateLimiter(operations_per_minute)
    /\ limiter = IdleLimiter
    /\ threads = [c \in Callers |-> IdleCaller]
    /\ backend = NoBackend
    /\ cache = SimpleCache
    /\ things = NoThings

concRateFrame == <<breakerVars, retryVars, dlq_file, replay, tool, _cache, cacheHist,
                  backend, cache, things>>

(* time passes, for the sleepers and between the calls *)
ConcElapse ==
    /\ now < StartTime + MaxConcTime
    /\ now' = now + 1
    /\ UNCHANGED <<rate_limiter, limiter, threads, concRateFrame>>

(* current_time = time.time(); time_since_last = current_time -             *)
(* self.last_operation_time; the test of time_since_last                    *)
Measure(c) ==
    /\ threads[c].pc = "idle"
    /\ threads' = [threads EXCEPT ![c] =
           [pc |-> IF wait_time(rate_limiter, now) > 0 THEN "sleep" ELSE "stamp",
            current_time |-> now,
            wait_time |-> wait_time(rate_limiter, now)]]
    /\ UNCHANGED <<now, rate_limiter, limiter, concRateFrame>>

(* time.sleep(wait_time) is over *)
Wake(c) ==
    /\ threads[c].pc = "sleep"
    /\ now >= threads[c].current_time + threads[c].wait_time
    /\ threads' = [threads EXCEPT ![c].pc = "stamp"]
    /\ UNCHANGED <<now, rate_limiter, limiter, concRateFrame>>

(* self.last_operation_time = time.time(), and the return *)
Stamp(c) ==
    /\ threads[c].pc = "stamp"
    /\ rate_limiter' = [rate_limiter EXCEPT !.last_operation_time = now]
    /\ limiter' = [limiter EXCEPT !.returns = Returned(@, now)]
    /\ threads' = [threads EXCEPT ![c].pc = "idle"]
    /\ UNCHANGED <<now, concRateFrame>>

NextConcRate ==
    \/ ConcElapse
    \/ \E c \in Callers : Measure(c)
    \/ \E c \in Callers : Wake(c)
    \/ \E c \in Callers : Stamp(c)

ConcRateSpec == InitConcRate /\ [][NextConcRate]_vars

(* C21: with two threads calling wait_if_needed, any two consecutive        *)
(* returns are at least operation_interval apart.                           *)
C21_ConcurrentSpacing ==
    Len(limiter.returns) = 2
      => limiter.returns[2] - limiter.returns[1] >= rate_limiter.operation_interval

----------------------------------------------------------------------------
(* DeadLetterQueue.add_failed_operation and retry_all called by concurrent  *)
(* threads on the shared instance. The class holds no lock: the append and  *)
(* the save of add_failed_operation, and the loop, the replacement of       *)
(* self.queue and the save of retry_all, are steps that interleave. The     *)
(* for loop walks self.queue itself, so it also reaches entries appended    *)
(* while it runs. A write of the file is one step.                          *)

Adders == {1, 2}

(* what thread a adds *)
AddedEntry(a, t) ==
    [operation |-> "add-todo",
     params |-> IF a = 1 THEN {<<"title", "x">>} ELSE {<<"id", "1">>},
     error |-> "timeout", attempts |-> DefaultAttempts, timestamp |-> t]

(* an entry without its count of attempts, which retry_all changes *)
Identity(e) == [operation |-> e.operation, params |-> e.params, error |-> e.error]

Holds(queue, e) == \E i \in 1..Len(queue) : Identity(queue[i]) = Identity(e)

InitConcDlq ==
    /\ now = StartTime
    /\ IdleBreaker
    /\ app_state = [is_available |-> TRUE, last_check_time |-> StartTime]
    /\ dlq_file = _save_queue(<<StoredEntry>>)
    /\ dead_letter_queue = _load_queue(dlq_file)
    /\ IdleCall
    /\ replay = IdleReplay
    /\ tool = IdleTool
    /\ _cache = ThingsCache(DefaultTtl)
    /\ cacheHist = [last |-> NoCacheCall, stored |-> {}]
    /\ rate_limiter = RateLimiter(DefaultRate)
    /\ limiter = IdleLimiter
    /\ threads = [a \in Adders |-> [pc |-> "idle", replayed |-> FALSE]]
    /\ backend = NoBackend
    /\ cache = SimpleCache
    /\ things = NoThings

concDlqFrame == <<now, breakerVars, app_state, pc, callVars, tool, _cache, cacheHist,
                 rate_limiter, limiter, backend, cache, things>>

(* add_failed_operation up to self.queue.append(entry) *)
AddAppend(a) ==
    /\ threads[a].pc = "idle"
    /\ dead_letter_queue' =
           add_failed_operation(dead_letter_queue, AddedEntry(a, now).operation,
                                AddedEntry(a, now).params, AddedEntry(a, now).error,
                                DefaultAttempts, now)
    /\ threads' = [threads EXCEPT ![a].pc = "save"]
    /\ UNCHANGED <<dlq_file, replay, concDlqFrame>>

(* self._save_queue() of add_failed_operation: the queue as it is by then *)
AddSave(a) ==
    /\ threads[a].pc = "save"
    /\ dlq_file' = _save_queue(dead_letter_queue)
    /\ threads' = [threads EXCEPT ![a].pc = "done"]
    /\ UNCHANGED <<dead_letter_queue, replay, concDlqFrame>>

(* retry_all up to the for loop *)
ConcRetryAllStart ==
    /\ replay.pc = "idle"
    /\ replay' = IF dead_letter_queue = <<>>
                 THEN [IdleReplay EXCEPT !.pc = "done"]
                 ELSE [IdleReplay EXCEPT !.pc = "loop", !.before = dead_letter_queue]
    /\ UNCHANGED <<dead_letter_queue, dlq_file, threads, concDlqFrame>>

(* one turn of the for loop, on the entry the iterator has reached *)
ConcReplayEntry ==
    /\ replay.pc = "loop"
    /\ replay.i <= Len(dead_letter_queue)
    /\ \E r \in ReplayOutcomes :
         IF r = "True"
         THEN /\ replay' = [replay EXCEPT !.i = @ + 1, !.success_count = @ + 1,
                                          !.results = Append(@, r)]
              /\ threads' = [a \in Adders |->
                     IF Identity(dead_letter_queue[replay.i])
                            = Identity(AddedEntry(a, now))
                     THEN [threads[a] EXCEPT !.replayed = TRUE]
                     ELSE threads[a]]
              /\ UNCHANGED dead_letter_queue
         ELSE /\ dead_letter_queue' =
                     [dead_letter_queue EXCEPT ![replay.i].attempts = @ + 1]
              /\ replay' = [replay EXCEPT
                     !.i = @ + 1,
                     !.failure_count = @ + 1,
                     !.remaining_queue = Append(@, dead_letter_queue'[replay.i]),
                     !.results = Append(@, r)]
              /\ UNCHANGED threads
    /\ UNCHANGED <<dlq_file, concDlqFrame>>

(* the iterator finds no further entry: the loop is over *)
LoopExit ==
    /\ replay.pc = "loop"
    /\ replay.i > Len(dead_letter_queue)
    /\ replay' = [replay EXCEPT !.pc = "replace"]
    /\ UNCHANGED <<dead_letter_queue, dlq_file, threads, concDlqFrame>>

(* self.queue = remaining_queue *)
Replace ==
    /\ replay.pc = "replace"
    /\ dead_letter_queue' = replay.remaining_queue
    /\ replay' = [replay EXCEPT !.pc = "save"]
    /\ UNCHANGED <<dlq_file, threads, concDlqFrame>>

(* self._save_queue() of retry_all, and its result *)
ReplaySave ==
    /\ replay.pc = "save"
    /\ dlq_file' = _save_queue(dead_letter_queue)
    /\ replay' = [replay EXCEPT
           !.pc = "done",
           !.ret = [success |-> replay.failure_count = 0,
                    retried |-> replay.success_count + replay.failure_count,
                    failed |-> replay.failure_count]]
    /\ UNCHANGED <<dead_letter_queue, threads, concDlqFrame>>

NextConcDlq ==
    \/ \E a \in Adders : AddAppend(a)
    \/ \E a \in Adders : AddSave(a)
    \/ ConcRetryAllStart
    \/ ConcReplayEntry
    \/ LoopExit
    \/ Replace
    \/ ReplaySave

ConcDlqSpec == InitConcDlq /\ [][NextConcDlq]_vars

(* C22: when add_failed_operation runs concurrently with retry_all or with  *)
(* another add_failed_operation, no added entry is lost: once all the calls *)
(* have completed, every added entry that was not replayed with success is  *)
(* in the queue in memory and in the file.                                  *)
C22_NoEntryLost ==
    (replay.pc = "done" /\ \A a \in Adders : threads[a].pc = "done")
      => \A a \in Adders :
            \/ threads[a].replayed
            \/ /\ Holds(dead_letter_queue, AddedEntry(a, now))
               /\ Holds(_load_queue(dlq_file), AddedEntry(a, now))

----------------------------------------------------------------------------
(* CircuitBreaker.record_failure called by two threads on the shared        *)
(* instance. The class holds no lock; "self.failure_count += 1" reads the   *)
(* field and writes it back, and another thread may run in between.         *)

InitConcBreaker ==
    /\ now = StartTime
    /\ \E ft \in 1..MaxThreshold : circuit_breaker = CircuitBreaker(ft, MaxTimeout)
    /\ last = NoCall
    /\ consec = 0
    /\ runClosed = TRUE
    /\ IdleRetry
    /\ dlq_file = NoFile
    /\ replay = IdleReplay
    /\ tool = IdleTool
    /\ _cache = ThingsCache(DefaultTtl)
    /\ cacheHist = [last |-> NoCacheCall, stored |-> {}]
    /\ rate_limiter = RateLimiter(DefaultRate)
    /\ limiter = IdleLimiter
    /\ threads = [c \in Callers |-> [pc |-> "idle", failure_count |-> 0]]
    /\ backend = NoBackend
    /\ cache = SimpleCache
    /\ things = NoThings

concBreakerFrame == <<now, last, runClosed, retryVars, dlq_file, replay, tool, _cache,
                     cacheHist, rate_limiter, limiter, backend, cache, things>>

(* "self.failure_count += 1", first half: the field is read *)
LoadCount(c) ==
    /\ threads[c].pc = "idle"
    /\ circuit_breaker.failure_count < MaxFailures
    /\ threads' = [threads EXCEPT ![c] =
           [pc |-> "loaded", failure_count |-> circuit_breaker.failure_count]]
    /\ UNCHANGED <<circuit_breaker, consec, concBreakerFrame>>

(* "self.failure_count += 1", second half: the sum is written *)
StoreCount(c) ==
    /\ threads[c].pc = "loaded"
    /\ circuit_breaker' =
           [circuit_breaker EXCEPT !.failure_count = threads[c].failure_count + 1]
    /\ threads' = [threads EXCEPT ![c].pc = "stored"]
    /\ UNCHANGED <<consec, concBreakerFrame>>

(* self.last_failure_time = time.time(); the threshold test; the return *)
StampAndTest(c) ==
    /\ threads[c].pc = "stored"
    /\ circuit_breaker' =
           [circuit_breaker EXCEPT
               !.last_failure_time = now,
               !.state = IF circuit_breaker.failure_count
                               >= circuit_breaker.failure_threshold
                         THEN OPEN ELSE @]
    /\ consec' = consec + 1
    /\ threads' = [threads EXCEPT ![c].pc = "idle"]
    /\ UNCHANGED concBreakerFrame

NextConcBreaker ==
    \/ \E c \in Callers : LoadCount(c)
    \/ \E c \in Callers : StoreCount(c)
    \/ \E c \in Callers : StampAndTest(c)

ConcBreakerSpec == InitConcBreaker /\ [][NextConcBreaker]_vars

(* C23: with two threads calling record_failure and no record_success, no   *)
(* update is lost: when no call is running, failure_count is the number of  *)
(* calls that have completed, and the breaker is Open whenever the count    *)
(* has reached failure_threshold.                                           *)
C23_NoLostUpdate ==
    (\A c \in Callers : threads[c].pc = "idle")
      => /\ circuit_breaker.failure_count = consec
         /\ circuit_breaker.failure_count >= circuit_breaker.failure_threshold
              => circuit_breaker.state = OPEN

----------------------------------------------------------------------------
(* class ThingsAppState: update_app_state and wait_for_app_availability,   *)
(* one caller at a time. is_things_running() answers as the environment     *)
(* decides and takes from 0 to MaxProbe ticks.                              *)

Timeouts == {0, 1 * TicksPerSecond, AvailTimeout}

(* mutant: the loop goes on while the elapsed time is at most the timeout *)
KeepsWaiting_atMost(elapsed, timeout) == elapsed <= timeout

(* "while time.time() - start_time < timeout" *)
KeepsWaiting(elapsed, timeout) == elapsed < timeout

(* ThingsAppState() was constructed up to check_interval ago; its           *)
(* constructor called update_app_state, which called is_things_running      *)
InitAvail ==
    /\ now = StartTime
    /\ IdleBreaker
    /\ \E age \in 0..CheckInterval, running \in BOOLEAN :
         /\ app_state = [is_available |-> running, last_check_time |-> StartTime - age]
         /\ backend = [calls |-> <<StartTime - age>>, polls |-> <<>>,
                       last |-> [at |-> StartTime - age, called |-> TRUE,
                                 answer |-> running]]
    /\ dead_letter_queue = <<>>
    /\ pc = "idle"
    /\ args = [timeout |-> 0]
    /\ attempt = 0
    /\ last_exception = "None"
    /\ start_time = 0
    /\ ret = "None"
    /\ outcome = "none"
    /\ log = <<>>
    /\ atCall = [queue |-> <<>>, breaker |-> CircuitBreaker(1, 1)]
    /\ dlq_file = NoFile
    /\ replay = IdleReplay
    /\ tool = IdleTool
    /\ _cache = ThingsCache(DefaultTtl)
    /\ cacheHist = [last |-> NoCacheCall, stored |-> {}]
    /\ rate_limiter = RateLimiter(DefaultRate)
    /\ limiter = IdleLimiter
    /\ threads = NoThreads
    /\ cache = SimpleCache
    /\ things = NoThings

availFrame == <<breakerVars, dead_letter_queue, attempt, last_exception, outcome, log,
               atCall, dlq_file, replay, tool, _cache, cacheHist, rate_limiter,
               limiter, threads, cache, things>>

(* one call of update_app_state at time now: the fields after it, the       *)
(* history of the is_things_running() calls, and the time the call took     *)
UpdateAppState(polled) ==
    \E running \in BOOLEAN, took \in 0..MaxProbe :
       LET after == update_app_state(app_state, now, running)
           called == after.last_check_time # app_state.last_check_time
           record == [at |-> now, called |-> called, answer |-> after.is_available]
       IN  /\ app_state' = after
           /\ now + (IF called THEN took ELSE 0) <= MaxTime
           /\ now' = now + (IF called THEN took ELSE 0)
           /\ ~called => (running /\ took = 0)
           /\ backend' = [calls |-> IF called THEN Returned(backend.calls, now)
                                    ELSE backend.calls,
                          polls |-> IF polled THEN Append(backend.polls, record)
                                    ELSE backend.polls,
                          last |-> record]

(* time passes between two calls *)
AvailElapse ==
    /\ pc \in {"idle", "done"}
    /\ now < MaxTime
    /\ now' = now + 1
    /\ UNCHANGED <<app_state, backend, pc, args, start_time, ret, availFrame>>

(* update_app_state() called on its own *)
CallUpdateAppState ==
    /\ pc \in {"idle", "done"}
    /\ UpdateAppState(FALSE)
    /\ UNCHANGED <<pc, args, start_time, ret, availFrame>>

(* wait_for_app_availability(timeout) up to start_time = time.time() *)
CallWaitForAppAvailability ==
    /\ pc \in {"idle", "done"}
    /\ \E timeout \in Timeouts : args' = [timeout |-> timeout]
    /\ start_time' = now
    /\ ret' = "None"
    /\ pc' = "wait"
    /\ backend' = [backend EXCEPT !.polls = <<>>]
    /\ UNCHANGED <<now, app_state, availFrame>>

(* the loop test, and one poll when the loop goes on *)
WaitPoll ==
    /\ pc = "wait"
    /\ IF KeepsWaiting(now - start_time, args.timeout)
       THEN /\ UpdateAppState(TRUE)
            /\ IF app_state'.is_available
               THEN pc' = "done" /\ ret' = "True"
               ELSE pc' = "poll_sleep" /\ UNCHANGED ret
       ELSE /\ pc' = "done"
            /\ ret' = "False"
            /\ UNCHANGED <<now, app_state, backend>>
    /\ UNCHANGED <<args, start_time, availFrame>>

(* time.sleep(0.5) *)
WaitSleep ==
    /\ pc = "poll_sleep"
    /\ now + PollSleep <= MaxTime
    /\ now' = now + PollSleep
    /\ pc' = "wait"
    /\ UNCHANGED <<app_state, backend, args, start_time, ret, availFrame>>

NextAvail ==
    \/ AvailElapse
    \/ CallUpdateAppState
    \/ CallWaitForAppAvailability
    \/ WaitPoll
    \/ WaitSleep

AvailSpec == InitAvail /\ [][NextAvail]_vars

(* C24: update_app_state calls is_things_running() only when more than     *)
(* check_interval has passed since the previous check, and then remembers   *)
(* the answer and the time; otherwise it returns the remembered answer and  *)
(* calls nothing. Two checks in a row are more than check_interval apart.   *)
C24_Memoized ==
    /\ [](Len(backend.calls) = 2
            => backend.calls[2] - backend.calls[1] > CheckInterval)
    /\ [][backend'.last # backend.last
            => IF now - app_state.last_check_time > CheckInterval
               THEN /\ backend'.last.called
                    /\ backend'.calls = Returned(backend.calls, now)
                    /\ app_state' = [is_available |-> backend'.last.answer,
                                     last_check_time |-> now]
               ELSE /\ ~backend'.last.called
                    /\ backend'.calls = backend.calls
                    /\ app_state' = app_state
                    /\ backend'.last.answer = app_state.is_available]_vars

(* two checks were made, and a later call got the remembered answer *)
C24_Witness ==
    /\ Len(backend.calls) = 2
    /\ ~backend.last.called
    /\ backend.last.at > backend.calls[2]
    /\ backend.last.at - backend.calls[2] <= CheckInterval

----------------------------------------------------------------------------
(* simple_server: class SimpleCache, the cached list views get-inbox,       *)
(* get-today, get-upcoming, get-anytime and get-someday, and the writes     *)
(* add-todo (add_task) and update-todo (update_task). things[v] is what     *)
(* the Things database shows in list v; a write that Things accepts gives   *)
(* the list it lands in a new revision. All calls fall within one ttl.      *)

(* ttl_seconds that each view passes to cache.get *)
ViewTtl(v) ==
    CASE v \in {"inbox", "today"} -> 30 * TicksPerSecond
      [] v = "upcoming" -> 60 * TicksPerSecond
      [] OTHER -> 300 * TicksPerSecond

(* SimpleCache.get: the cache after the call and the value returned *)
SimpleCache_get(self, key, ttl_seconds, t) ==
    IF key \in DOMAIN self.cache
    THEN IF t - self.timestamps[key] < ttl_seconds
         THEN [self |-> self, ret |-> [none |-> FALSE, value |-> self.cache[key]]]
         ELSE [self |-> [cache |-> Del(self.cache, key),
                         timestamps |-> Del(self.timestamps, key)],
               ret |-> [none |-> TRUE, value |-> 0]]
    ELSE [self |-> self, ret |-> [none |-> TRUE, value |-> 0]]

SimpleCache_set(self, key, value, t) ==
    [cache |-> Put(self.cache, key, value), timestamps |-> Put(self.timestamps, key, t)]

(* "pattern in k" for the keys of Views: none of them is part of another *)
Contains(k, pattern) == k = pattern

(* SimpleCache.invalidate(pattern), pattern "None" for None *)
SimpleCache_invalidate(self, pattern) ==
    IF pattern = "None"
    THEN [cache |-> EmptyDict, timestamps |-> EmptyDict]
    ELSE LET keep == {k \in DOMAIN self.cache : ~Contains(k, pattern)}
         IN  [cache |-> [k \in keep |-> self.cache[k]],
              timestamps |-> [k \in keep |-> self.timestamps[k]]]

(* the "when" values of add-todo, and the list a new todo lands in *)
WhenChoices == {"None", "today", "tomorrow", "anytime", "someday"}

TargetList(when) ==
    CASE when = "None" -> "inbox"
      [] when = "tomorrow" -> "upcoming"
      [] OTHER -> when

(* add_task: cache.invalidate("inbox"), ("today"), ("upcoming") *)
AddTaskInvalidates == <<"inbox", "today", "upcoming">>

RECURSIVE InvalidateEach(_, _)
InvalidateEach(self, patterns) ==
    IF patterns = <<>> THEN self
    ELSE InvalidateEach(SimpleCache_invalidate(self, Head(patterns)), Tail(patterns))

InitSimple ==
    /\ now = StartTime
    /\ IdleBreaker
    /\ IdleRetry
    /\ dlq_file = NoFile
    /\ IdleSide

simpleFrame == <<now, breakerVars, retryVars, dlq_file, replay, _cache, cacheHist,
                rate_limiter, limiter, threads, backend>>

(* get_inbox and the four views like it *)
CallGetView ==
    \E v \in Views :
       LET got == SimpleCache_get(cache, v, ViewTtl(v), now)
       IN  /\ IF ~got.ret.none
              THEN /\ cache' = got.self
                   /\ tool' = [pc |-> "done", name |-> "get-" \o v,
                               arguments |-> "None", response |-> got.ret.value]
              ELSE /\ cache' = SimpleCache_set(got.self, v, things[v], now)
                   /\ tool' = [pc |-> "done", name |-> "get-" \o v,
                               arguments |-> "None", response |-> things[v]]
           /\ UNCHANGED <<things, simpleFrame>>

(* what ensure_things_running and the URL call come to *)
WriteOutcomes == {"unavailable", "True", "False", "raise"}

(* add_task(title, when=...) *)
CallAddTask ==
    \E when \in WhenChoices, result \in WriteOutcomes :
       /\ tool' = [pc |-> "done", name |-> "add-todo", arguments |-> when,
                   response |-> result]
       /\ IF result = "True"
          THEN /\ things[TargetList(when)] < MaxRevision
               /\ things' = [things EXCEPT ![TargetList(when)] = @ + 1]
               /\ cache' = InvalidateEach(cache, AddTaskInvalidates)
          ELSE UNCHANGED <<things, cache>>
       /\ UNCHANGED simpleFrame

(* update_task(id, ...): the todo is in any of the lists *)
CallUpdateTask ==
    \E v \in Views, result \in WriteOutcomes :
       /\ tool' = [pc |-> "done", name |-> "update-todo", arguments |-> v,
                   response |-> result]
       /\ IF result = "True"
          THEN /\ things[v] < MaxRevision
               /\ things' = [things EXCEPT ![v] = @ + 1]
               /\ cache' = SimpleCache_invalidate(cache, "None")
          ELSE UNCHANGED <<things, cache>>
       /\ UNCHANGED simpleFrame

NextSimple ==
    \/ CallGetView
    \/ CallAddTask
    \/ CallUpdateTask

SimpleSpec == InitSimple /\ [][NextSimple]_vars

(* C26: when a write has reported success, no cached result is left for a   *)
(* view that the write changed, so the next read of that view recomputes;   *)
(* a write that fails removes no cache entry.                               *)
C26_WriteInvalidates ==
    [][/\ \A v \in Views : things'[v] # things[v] => v \notin DOMAIN cache'.cache
       /\ (tool'.name \in {"add-todo", "update-todo"} /\ tool'.response # "True")
            => cache' = cache]_vars

----------------------------------------------------------------------------
(* The write tools of handle_tool_call under retry_operation: update-project *)
(* runs url_scheme.execute_url, update-todo runs the AppleScript bridge.     *)
(* The log holds the returns of wait_if_needed and the calls of the          *)
(* executor (webbrowser.open, or the function of the bridge), with the time. *)

WriteTools == {"update-project", "update-todo"}
Executor(name) == IF name = "update-project" THEN "url" ELSE "applescript"

(* what Things and the system do with one execute_url call *)
UrlOutcomes == {"opened", "refused", "down"}

LaunchSleep == 2 * TicksPerSecond       \* launch_things: time.sleep(2)
SettleSleep == TicksPerSecond \div 2    \* execute_url: time.sleep(0.5 + jitter)

(* url_scheme.execute_url(url) called at time t: the limiter, the breaker,  *)
(* the log and the clock after it, and the value returned                   *)
execute_url(breaker, limiter_, events, t, does) ==
    LET returned == t + wait_time(limiter_, t)
        stamped == [limiter_ EXCEPT !.last_operation_time = returned]
        waited == Append(events, Event("wait_if_needed", "", "", returned))
        allowed == allow_operation(breaker, returned)
    IN  IF ~allowed.ret
        THEN [breaker |-> allowed.self, limiter |-> stamped, log |-> waited,
              now |-> returned, result |-> "False"]
        ELSE CASE does = "down" ->
                    [breaker |-> record_failure(allowed.self, returned + LaunchSleep),
                     limiter |-> stamped, log |-> waited,
                     now |-> returned + LaunchSleep, result |-> "False"]
               [] does = "refused" ->
                    [breaker |-> record_failure(allowed.self, returned),
                     limiter |-> stamped,
                     log |-> Append(waited, Event("execute", "return", "False", returned)),
                     now |-> returned, result |-> "False"]
               [] OTHER ->
                    [breaker |-> record_success(allowed.self),
                     limiter |-> stamped,
                     log |-> Append(waited, Event("execute", "return", "True", returned)),
                     now |-> returned + SettleSleep, result |-> "True"]

(* handle_tool_call for a write tool, up to start_time = time.time() inside *)
(* retry_operation                                                          *)
WriteCall ==
    /\ pc = "idle"
    /\ \E name \in WriteTools :
           args' = [max_retries |-> DefaultMaxRetries, delay |-> DefaultDelay,
                    operation_name |-> IF name = "update-todo" THEN "update-todo-direct" ELSE name,
                    params |-> [none |-> FALSE, map |-> {<<"id", "1">>}],
                    executor |-> Executor(name)]
    /\ start_time' = now
    /\ attempt' = 0
    /\ last_exception' = "None"
    /\ log' = <<>>
    /\ ret' = "None"
    /\ outcome' = "running"
    /\ atCall' = [queue |-> dead_letter_queue, breaker |-> circuit_breaker]
    /\ pc' = "wait"
    /\ UNCHANGED <<now, breakerVars, app_state, dead_letter_queue>>
    /\ UNCHANGED <<dlq_file, sideVars>>

(* one turn of the for loop of retry_operation with the tool's executor as  *)
(* func: execute_url, or applescript_bridge.update_todo_direct, a name the  *)
(* bridge does not define, so that the call raises AttributeError           *)
WriteAttempt ==
    /\ pc = "attempt"
    /\ attempt < args.max_retries
    /\ IF args.executor = "url"
       THEN \E does \in UrlOutcomes :
              LET done == execute_url(circuit_breaker, rate_limiter, log, now, does)
              IN  /\ done.now <= MaxTime
                  /\ now' = done.now
                  /\ rate_limiter' = done.limiter
                  /\ log' = done.log
                  /\ IF Truthy(done.result)
                     THEN /\ circuit_breaker' = record_success(done.breaker)
                          /\ Return("success", done.result)
                          /\ UNCHANGED <<attempt, last_exception>>
                     ELSE /\ circuit_breaker' = record_failure(done.breaker, done.now)
                          /\ last_exception' = "Operation returned False"
                          /\ pc' = "attempt"
                          /\ attempt' = attempt + 1
                          /\ UNCHANGED <<ret, outcome>>
       ELSE /\ log' = Append(log, Event("execute", "raise", "AttributeError", now))
            /\ circuit_breaker' = record_failure(circuit_breaker, now)
            /\ last_exception' = "AttributeError"
            /\ IF attempt < args.max_retries - 1
               THEN pc' = "backoff" /\ UNCHANGED attempt
               ELSE pc' = "attempt" /\ attempt' = attempt + 1
            /\ UNCHANGED <<now, rate_limiter, ret, outcome>>
    /\ UNCHANGED <<last, consec, runClosed, app_state, dead_letter_queue, args,
                   start_time, atCall, dlq_file, replay, tool, _cache, cacheHist,
                   limiter, moreVars>>

NextWrite ==
    \/ WriteCall
    \/ Poll
    \/ PollWait
    \/ Gate
    \/ WriteAttempt
    \/ Backoff
    \/ GiveUp

WriteSpec == InitRetry /\ [][NextWrite]_vars

(* C27: on every write path, each call of the executor comes after a return *)
(* of wait_if_needed that no other executor call has used, and two executor *)
(* calls are at least operation_interval apart.                             *)
C27_WritesRateLimited ==
    LET Executes == {i \in 1..Len(log) : log[i].ev = "execute"}
    IN  /\ \A j \in Executes :
              \E k \in 1..(j - 1) :
                 /\ log[k].ev = "wait_if_needed"
                 /\ \A m \in (k + 1)..(j - 1) : log[m].ev # "execute"
        /\ \A i, j \in Executes :
              i < j => log[j].n - log[i].n >= rate_limiter.operation_interval

----------------------------------------------------------------------------
(* Two threads in the wrapper of one function decorated with @cached(ttl),  *)
(* called with the same keyword parameters. ThingsCache.get and             *)
(* ThingsCache.set each run under the cache's lock, so each is one step;    *)
(* the wrapper holds no lock between them and around func.                  *)

Wrapped == "today"      \* func.__name__

InitCached ==
    /\ now = StartTime
    /\ IdleBreaker
    /\ IdleRetry
    /\ dlq_file = NoFile
    /\ replay = IdleReplay
    /\ tool = IdleTool
    /\ _cache = ThingsCache(DefaultTtl)
    /\ cacheHist = [last |-> NoCacheCall, stored |-> {}]
    /\ rate_limiter = RateLimiter(DefaultRate)
    /\ limiter = IdleLimiter
    /\ \E ttl \in TtlChoices, kwargs \in [Callers -> KwargsChoices] :
         /\ \A c, d \in Callers : Mapping(kwargs[c]) = Mapping(kwargs[d])
         /\ threads = [c \in Callers |->
                         [pc |-> "idle", ttl |-> ttl, kwargs |-> kwargs[c],
                          cached_value |-> "None", result |-> "None",
                          missed |-> FALSE, set_no |-> 0]]
    /\ backend = NoBackend
    /\ cache = SimpleCache
    /\ things = NoThings

cachedFrame == <<now, cacheHist, breakerVars, retryVars, dlq_file, replay, tool,
                 rate_limiter, limiter, backend, cache, things>>

(* the number of set calls made so far *)
SetsDone == Cardinality({c \in Callers : threads[c].set_no > 0})

(* cached_value = _cache.get(operation, ...); return it unless None *)
WrapperGet(c) ==
    /\ threads[c].pc = "idle"
    /\ LET got == get(_cache, Wrapped, threads[c].kwargs, now)
       IN  /\ _cache' = got.self
           /\ threads' = [threads EXCEPT
                  ![c].cached_value = got.ret,
                  ![c].missed = (got.ret = "None"),
                  ![c].result = IF got.ret = "None" THEN "None" ELSE got.ret,
                  ![c].pc = IF got.ret = "None" THEN "missed" ELSE "done"]
    /\ UNCHANGED cachedFrame

(* result = func(...) *)
WrapperCall(c) ==
    /\ threads[c].pc = "missed"
    /\ \E result \in CacheValues :
         threads' = [threads EXCEPT ![c].result = result, ![c].pc = "called"]
    /\ UNCHANGED <<_cache, cachedFrame>>

(* _cache.set(operation, result, ttl=ttl, ...); return result *)
WrapperSet(c) ==
    /\ threads[c].pc = "called"
    /\ _cache' = set(_cache, Wrapped, threads[c].result, threads[c].ttl,
                     threads[c].kwargs, now)
    /\ threads' = [threads EXCEPT ![c].set_no = SetsDone + 1, ![c].pc = "done"]
    /\ UNCHANGED cachedFrame

NextCached ==
    \/ CacheTick
    \/ \E c \in Callers : WrapperGet(c)
    \/ \E c \in Callers : WrapperCall(c)
    \/ \E c \in Callers : WrapperSet(c)

CachedSpec == InitCached /\ [][NextCached]_vars

(* C28: the wrapper gives no single flight. When two calls with the same    *)
(* operation and parameters have both missed, both invoke the function and  *)
(* both store, and once both have returned the cache holds, under their     *)
(* one key, the value of the set that ran last; a call returns a value      *)
(* without invoking the function only on a hit.                             *)
C28_LastSetWins ==
    /\ \A c \in Callers :
          threads[c].pc = "done" =>
             IF threads[c].missed THEN threads[c].set_no > 0
             ELSE threads[c].set_no = 0 /\ threads[c].result = threads[c].cached_value
    /\ \A c \in Callers :
          (/\ \A d \in Callers : threads[d].pc = "done" /\ threads[d].missed
           /\ threads[c].set_no = Cardinality(Callers))
          => LET key == _make_key(Wrapped, threads[c].kwargs)
             IN  /\ key \in DOMAIN _cache.cache
                 /\ _cache.cache[key].value = threads[c].result
                 /\ Cardinality(DOMAIN _cache.cache) = 1

(* both calls missed while the cache was empty, the function ran twice with *)
(* different results, and both have stored                                  *)
C28_Witness ==
    /\ \A c \in Callers : threads[c].pc = "done" /\ threads[c].missed
    /\ _cache.miss_count = 2
    /\ \E c, d \in Callers :
          /\ threads[c].result # threads[d].result
          /\ threads[c].kwargs # threads[d].kwargs
          /\ threads[c].set_no = 1 /\ threads[d].set_no = 2
          /\ _cache.cache[_make_key(Wrapped, threads[d].kwargs)].value = threads[d].result

----------------------------------------------------------------------------
(* C29: a cleanup_expired call removes exactly the entries whose expiry     *)
(* instant is at or before the time of the sweep, leaves the other entries  *)
(* and the hit and miss counters as they were and returns the number of     *)
(* entries removed; and an entry leaves the cache only in a get of its key  *)
(* or a cleanup_expired at or after its expiry instant, or in an            *)
(* invalidate; a set removes none.                                          *)
C29_CleanupExpired ==
    [][LET expired == {k \in DOMAIN _cache.cache :
                          _cache.cache[k].expiry_time <= now}
           leaving == DOMAIN _cache.cache \ DOMAIN _cache'.cache
           call == cacheHist'.last
       IN  /\ (call.op = "cleanup_expired" /\ <<_cache, cacheHist>>' # <<_cache, cacheHist>>)
              => /\ leaving = expired
                 /\ \A k \in DOMAIN _cache.cache \ expired :
                       _cache'.cache[k] = _cache.cache[k]
                 /\ DOMAIN _cache'.cache \subseteq DOMAIN _cache.cache
                 /\ _cache'.hit_count = _cache.hit_count
                 /\ _cache'.miss_count = _cache.miss_count
                 /\ call.ret = ToString(Cardinality(expired))
           /\ leaving # {}
              => \/ /\ call.op = "cleanup_expired"
                    /\ leaving \subseteq expired
                 \/ /\ call.op = "get"
                    /\ leaving = {_make_key(call.operation, call.kwargs)}
                    /\ leaving \subseteq expired
                 \/ call.op = "invalidate"]_vars

(* a sweep has just removed one expired entry and kept an unexpired one *)
C29_Witness ==
    /\ cacheHist.last.op = "cleanup_expired"
    /\ cacheHist.last.ret = "1"
    /\ Cardinality(DOMAIN _cache.cache) = 1
    /\ \A k \in DOMAIN _cache.cache : _cache.cache[k].expiry_time > now

----------------------------------------------------------------------------
(* C30: after its two gates retry_operation does not ask the breaker again. *)
(* While the loop runs, every turn with attempts left invokes func,         *)
(* whatever state the breaker is in, and the call is never refused; the     *)
(* breaker changes only by record_failure and record_success; func is       *)
(* invoked at most max_retries times in a call, and exactly max_retries     *)
(* times when the call fails.                                               *)
C30_NoRecheckInLoop ==
    /\ [](/\ Len(Invokes) <= args.max_retries
          /\ ((pc = "done" /\ outcome = "failed") => Len(Invokes) = args.max_retries)
          /\ (pc \in {"attempt", "backoff"} => ~Refused))
    /\ [][(pc \in {"attempt", "backoff"})
            => (/\ ~(outcome' \in {"unavailable", "blocked"})
                /\ IF pc = "attempt" /\ attempt < args.max_retries
                   THEN /\ Len(Invokes') = Len(Invokes) + 1
                        /\ circuit_breaker' \in {record_failure(circuit_breaker, now),
                                                 record_success(circuit_breaker)}
                   ELSE circuit_breaker' = circuit_breaker)]_vars

(* the breaker was Closed at the call and opened at the first failure; the  *)
(* two remaining attempts were made all the same                            *)
C30_Witness ==
    /\ pc = "done" /\ outcome = "failed"
    /\ atCall.breaker.state = CLOSED
    /\ circuit_breaker.failure_threshold = 1
    /\ circuit_breaker.state = OPEN
    /\ args.max_retries = 3
    /\ Len(Invokes) = 3

----------------------------------------------------------------------------
(* The write tools once more, the breaker being the one utils.py builds,    *)
(* CircuitBreaker() with failure_threshold = 5, or one with a lower         *)
(* threshold. execute_url and retry_operation report to this one breaker.   *)

InitComposed ==
    /\ now = StartTime
    /\ \E ft \in (1..MaxThreshold) \cup {DefaultThreshold} :
           circuit_breaker = CircuitBreaker(ft, MaxTimeout)
    /\ last = NoCall
    /\ consec = 0
    /\ runClosed = TRUE
    /\ \E running \in BOOLEAN :
           app_state = [is_available |-> running, last_check_time |-> StartTime]
    /\ dlq_file = NoFile
    /\ dead_letter_queue = _load_queue(NoFile)
    /\ pc = "idle"
    /\ args = [max_retries |-> 0, delay |-> 0, operation_name |-> "None",
               params |-> [none |-> TRUE, map |-> {}]]
    /\ attempt = 0
    /\ last_exception = "None"
    /\ start_time = 0
    /\ ret = "None"
    /\ outcome = "none"
    /\ log = <<>>
    /\ atCall = [queue |-> dead_letter_queue, breaker |-> circuit_breaker]
    /\ IdleSide

ComposedSpec == InitComposed /\ [][NextWrite]_vars

(* C31: where retry_operation wraps execute_url, a failed attempt adds      *)
(* exactly one to the breaker's failure_count, and one call with            *)
(* max_retries = 3 leaves a breaker Open only if that breaker was not       *)
(* freshly Closed with the default threshold of 5 when the call began.      *)
C31_OneFailureOneCount ==
    /\ []((/\ pc # "idle"
           /\ args.executor = "url"
           /\ atCall.breaker = CircuitBreaker(DefaultThreshold, MaxTimeout)
           /\ args.max_retries = DefaultMaxRetries)
          => circuit_breaker.state = CLOSED)
    /\ [][(/\ pc = "attempt"
           /\ args.executor = "url"
           /\ attempt' = attempt + 1)
          => circuit_breaker'.failure_count = circuit_breaker.failure_count + 1]_vars

----------------------------------------------------------------------------
(* handle_tool_call("add-project", arguments): retry_operation around       *)
(* execute_xcallback_url, then, when that returned False, retry_operation   *)
(* around execute_url, then "raise RuntimeError" and the failure branch.    *)
(* Both retry_operation calls are given operation_name and params. The      *)
(* params dict is shown by its title item; the items of the optional        *)
(* arguments, None when absent, do not bear on what is recorded.            *)

ProjectArguments == {[none |-> FALSE, map |-> {<<"title", "x">>}],
                     [none |-> FALSE, map |-> {<<"id", "1">>}]}

(* retry_operation(func, operation_name="add-project", params=params), up   *)
(* to start_time = time.time()                                              *)
ProjectRetry(arguments) ==
    /\ args' = [max_retries |-> DefaultMaxRetries, delay |-> DefaultDelay,
                operation_name |-> "add-project",
                params |-> [none |-> FALSE,
                            map |-> {<<"title", Lookup(arguments, "title")>>}]]
    /\ start_time' = now
    /\ attempt' = 0
    /\ last_exception' = "None"
    /\ ret' = "None"
    /\ outcome' = "running"
    /\ pc' = "wait"

ProjectCall ==
    /\ tool.pc = "idle"
    /\ pc = "idle"
    /\ \E arguments \in ProjectArguments :
         /\ atCall' = [queue |-> dead_letter_queue, breaker |-> circuit_breaker]
         /\ log' = <<>>
         /\ IF ~HasKey(arguments, "title")
            THEN /\ dead_letter_queue' =
                        HandlerFailure(dead_letter_queue, "add-project", arguments,
                                       "Missing title parameter", now)
                 /\ dlq_file' = _save_queue(dead_letter_queue')
                 /\ tool' = [pc |-> "done", name |-> "add-project",
                             arguments |-> arguments, response |-> "error"]
                 /\ UNCHANGED <<pc, args, attempt, last_exception, start_time, ret,
                                outcome>>
            ELSE /\ ProjectRetry(arguments)
                 /\ tool' = [pc |-> "xcallback", name |-> "add-project",
                             arguments |-> arguments, response |-> "None"]
                 /\ UNCHANGED <<dead_letter_queue, dlq_file>>
    /\ UNCHANGED <<now, breakerVars, app_state, replay, _cache, cacheHist,
                   rate_limiter, limiter, moreVars>>

(* "if success: return ..." after the first retry_operation, else the call  *)
(* of the second                                                            *)
ProjectFallback ==
    /\ tool.pc = "xcallback"
    /\ pc = "done"
    /\ IF Truthy(ret)
       THEN /\ tool' = [tool EXCEPT !.pc = "done", !.response = "ok"]
            /\ UNCHANGED <<pc, args, attempt, last_exception, start_time, ret, outcome>>
       ELSE /\ ProjectRetry(tool.arguments)
            /\ tool' = [tool EXCEPT !.pc = "fallback"]
    /\ UNCHANGED <<now, breakerVars, app_state, dead_letter_queue, dlq_file, log,
                   atCall, replay, _cache, cacheHist, rate_limiter, limiter, moreVars>>

(* after the second retry_operation: the answer, or RuntimeError and the    *)
(* failure branch                                                           *)
ProjectReturn ==
    /\ tool.pc = "fallback"
    /\ pc = "done"
    /\ IF Truthy(ret)
       THEN /\ tool' = [tool EXCEPT !.pc = "done", !.response = "ok"]
            /\ UNCHANGED <<dead_letter_queue, dlq_file>>
       ELSE /\ dead_letter_queue' =
                   HandlerFailure(dead_letter_queue, tool.name, tool.arguments,
                                  "Failed to create project: "
                                     \o Lookup(tool.arguments, "title"), now)
            /\ dlq_file' = _save_queue(dead_letter_queue')
            /\ tool' = [tool EXCEPT !.pc = "done", !.response = "error"]
    /\ UNCHANGED <<now, breakerVars, app_state, pc, callVars, replay, _cache,
                   cacheHist, rate_limiter, limiter, moreVars>>

NextProject ==
    \/ ProjectCall
    \/ Poll
    \/ PollWait
    \/ Gate
    \/ Attempt
    \/ Backoff
    \/ GiveUp
    \/ ProjectFallback
    \/ ProjectReturn

ProjectSpec == InitRetry /\ [][NextProject]_vars

(* C32: a tool call that has ended in failure with the retries of its last  *)
(* retry_operation exhausted has added exactly one entry to the dead letter *)
(* queue.                                                                   *)
C32_OneEntryPerCall ==
    (/\ tool.pc = "done"
     /\ tool.response = "error"
     /\ pc = "done" /\ outcome = "failed")
      => Len(dead_letter_queue) = Len(atCall.queue) + 1

----------------------------------------------------------------------------
(* C33: a tool call whose arguments fail validation invokes nothing and     *)
(* leaves the dead letter queue as it was.                                  *)
C33_InvalidNotRecorded ==
    (tool.pc = "done" /\ Invalid(tool.name, tool.arguments))
      => /\ Len(Invokes) = 0
         /\ dead_letter_queue = atCall.queue

----------------------------------------------------------------------------
(* C34: while the breaker is Open no call moves last_failure_time, the      *)
(* instant from which recovery_timeout is counted, so that the trial call   *)
(* is admitted no later than recovery_timeout after the breaker opened.     *)
C34_OpenInstantKept ==
    [][(circuit_breaker.state = OPEN /\ circuit_breaker'.state = OPEN)
         => circuit_breaker'.last_failure_time = circuit_breaker.last_failure_time]_vars

----------------------------------------------------------------------------
(* Operations issued one after the other through retry_operation around     *)
(* execute_url (show-item gives no operation_name, so nothing is added to   *)
(* the dead letter queue), against a target that fails as it likes until    *)
(* it heals; from then on Things is running and every webbrowser.open       *)
(* succeeds. The clock is kept relative: Rebase moves now back to StartTime *)
(* and every stored instant with it; an instant further back than           *)
(* StartTime ticks stays that far back, which is more than check_interval,  *)
(* the availability timeout, the recovery timeout and the limiter's         *)
(* interval, the only spans that instants are compared with.                *)

InitRecover ==
    /\ now = StartTime
    /\ \E ft \in 1..MaxThreshold, rt \in 1..MaxTimeout :
           circuit_breaker = CircuitBreaker(ft, rt)
    /\ last = NoCall
    /\ consec = 0
    /\ runClosed = TRUE
    /\ IdleRetry
    /\ dlq_file = NoFile
    /\ replay = IdleReplay
    /\ tool = IdleTool
    /\ _cache = ThingsCache(DefaultTtl)
    /\ cacheHist = [last |-> NoCacheCall, stored |-> {}]
    /\ rate_limiter = RateLimiter(DefaultRate)
    /\ limiter = IdleLimiter
    /\ threads = NoThreads
    /\ backend = [calls |-> <<>>, polls |-> <<>>, last |-> NoBackend.last,
                  healthy |-> FALSE]
    /\ cache = SimpleCache
    /\ things = NoThings

recoverFrame == <<last, consec, runClosed, dead_letter_queue, log, dlq_file, replay,
                  tool, _cache, cacheHist, limiter, threads, cache, things>>

(* the target heals, for good *)
Heal ==
    /\ ~backend.healthy
    /\ backend' = [backend EXCEPT !.healthy = TRUE]
    /\ UNCHANGED <<now, circuit_breaker, app_state, pc, args, attempt, last_exception,
                   start_time, ret, outcome, atCall, rate_limiter, recoverFrame>>

Shift(instant, by) == IF instant > by THEN instant - by ELSE 0

Rebase ==
    /\ now > StartTime
    /\ now' = StartTime
    /\ circuit_breaker' = [circuit_breaker EXCEPT
                             !.last_failure_time = Shift(@, now - StartTime)]
    /\ app_state' = [app_state EXCEPT !.last_check_time = Shift(@, now - StartTime)]
    /\ rate_limiter' = [rate_limiter EXCEPT
                          !.last_operation_time = Shift(@, now - StartTime)]
    /\ start_time' = Shift(start_time, now - StartTime)
    /\ atCall' = [atCall EXCEPT !.breaker.last_failure_time = Shift(@, now - StartTime)]
    /\ UNCHANGED <<pc, args, attempt, last_exception, ret, outcome, backend,
                   recoverFrame>>

(* the next operation, some time after the one before it returned:          *)
(* retry_operation(lambda: url_scheme.execute_url(url)), up to start_time = *)
(* time.time() in wait_for_app_availability                                 *)
Issue ==
    /\ pc \in {"idle", "done"}
    /\ now + 1 <= MaxTime
    /\ now' = now + 1
    /\ args' = [max_retries |-> DefaultMaxRetries, delay |-> DefaultDelay,
                operation_name |-> "None", params |-> [none |-> TRUE, map |-> {}],
                executor |-> "url"]
    /\ start_time' = now'
    /\ attempt' = 0
    /\ last_exception' = "None"
    /\ ret' = "None"
    /\ outcome' = "running"
    /\ atCall' = [queue |-> dead_letter_queue, breaker |-> circuit_breaker]
    /\ pc' = "wait"
    /\ UNCHANGED <<circuit_breaker, app_state, rate_limiter, backend, recoverFrame>>

(* is_things_running() of a healed target is True *)
Answers == IF backend.healthy THEN {TRUE} ELSE BOOLEAN

(* webbrowser.open of a healed target succeeds; the failures of a target    *)
(* that has not healed stop at MaxFailures                                  *)
Does == IF backend.healthy \/ circuit_breaker.failure_count >= MaxFailures
        THEN {"opened"}
        ELSE UrlOutcomes

(* one turn of the loop of wait_for_app_availability, and the refusal after it *)
RecoverPoll ==
    /\ pc = "wait"
    /\ IF now - start_time < AvailTimeout
       THEN /\ \E running \in Answers :
                   app_state' = update_app_state(app_state, now, running)
            /\ pc' = IF app_state'.is_available THEN "gate" ELSE "poll_sleep"
            /\ UNCHANGED <<ret, outcome>>
       ELSE /\ Return("unavailable", "False")
            /\ UNCHANGED app_state
    /\ UNCHANGED <<now, circuit_breaker, args, attempt, last_exception, start_time,
                   atCall, rate_limiter, backend, recoverFrame>>

(* one turn of the for loop of retry_operation with execute_url as func *)
RecoverAttempt ==
    /\ pc = "attempt"
    /\ attempt < args.max_retries
    /\ \E does \in Does :
         LET done == execute_url(circuit_breaker, rate_limiter, <<>>, now, does)
         IN  /\ done.now <= MaxTime
             /\ now' = done.now
             /\ rate_limiter' = done.limiter
             /\ IF Truthy(done.result)
                THEN /\ circuit_breaker' = record_success(done.breaker)
                     /\ Return("success", done.result)
                     /\ UNCHANGED <<attempt, last_exception>>
                ELSE /\ circuit_breaker' = record_failure(done.breaker, done.now)
                     /\ last_exception' = "Operation returned False"
                     /\ pc' = "attempt"
                     /\ attempt' = attempt + 1
                     /\ UNCHANGED <<ret, outcome>>
    /\ UNCHANGED <<app_state, args, start_time, atCall, backend, recoverFrame>>

NextRecover ==
    \/ Heal
    \/ Rebase
    \/ Issue
    \/ RecoverPoll
    \/ PollWait
    \/ Gate
    \/ RecoverAttempt
    \/ GiveUp

(* the caller is one thread that runs on, and operations keep coming *)
RecoverSpec ==
    /\ InitRecover
    /\ [][NextRecover]_vars
    /\ WF_vars(Rebase)
    /\ WF_vars(Issue)
    /\ WF_vars(RecoverPoll)
    /\ WF_vars(PollWait)
    /\ WF_vars(Gate)
    /\ WF_vars(RecoverAttempt)
    /\ WF_vars(GiveUp)

(* C35: once the target has healed and operations keep being issued, the    *)
(* breaker reaches Closed with failure_count 0 and stays so.                *)
C35_Recovers ==
    backend.healthy
      ~> [](circuit_breaker.state = CLOSED /\ circuit_breaker.failure_count = 0)

(* an operation issued after the target healed found the breaker Open, was  *)
(* admitted as the trial call and closed it                                 *)
C35_Witness ==
    /\ backend.healthy
    /\ atCall.breaker.state = OPEN
    /\ pc = "done" /\ outcome = "success"
    /\ circuit_breaker.state = CLOSED
    /\ circuit_breaker.failure_count = 0

----------------------------------------------------------------------------
(* The availability gate of retry_operation against a target that comes up  *)
(* and goes down: backend.running is what is_things_running() would answer  *)
(* at this instant, backend.since the instant from which it has been        *)
(* answering True.                                                          *)

InitReach ==
    /\ now = StartTime
    /\ IdleBreaker
    /\ \E age \in 0..CheckInterval, running \in BOOLEAN :
         /\ app_state = [is_available |-> running, last_check_time |-> StartTime - age]
         /\ backend = [calls |-> <<StartTime - age>>, polls |-> <<>>,
                       last |-> [at |-> StartTime - age, called |-> TRUE,
                                 answer |-> running],
                       running |-> running, since |-> StartTime - age]
    /\ dead_letter_queue = <<>>
    /\ pc = "idle"
    /\ args = [timeout |-> 0]
    /\ attempt = 0
    /\ last_exception = "None"
    /\ start_time = 0
    /\ ret = "None"
    /\ outcome = "none"
    /\ log = <<>>
    /\ atCall = [queue |-> <<>>, breaker |-> CircuitBreaker(1, 1)]
    /\ dlq_file = NoFile
    /\ replay = IdleReplay
    /\ tool = IdleTool
    /\ _cache = ThingsCache(DefaultTtl)
    /\ cacheHist = [last |-> NoCacheCall, stored |-> {}]
    /\ rate_limiter = RateLimiter(DefaultRate)
    /\ limiter = IdleLimiter
    /\ threads = NoThreads
    /\ cache = SimpleCache
    /\ things = NoThings

(* Things starts, or stops *)
TargetUp ==
    /\ ~backend.running
    /\ backend' = [backend EXCEPT !.running = TRUE, !.since = now]
    /\ UNCHANGED <<now, app_state, pc, args, start_time, ret, availFrame>>

TargetDown ==
    /\ backend.running
    /\ backend' = [backend EXCEPT !.running = FALSE]
    /\ UNCHANGED <<now, app_state, pc, args, start_time, ret, availFrame>>

(* "if not app_state.wait_for_app_availability(timeout=5)", up to          *)
(* start_time = time.time()                                                 *)
ReachCall ==
    /\ pc \in {"idle", "done"}
    /\ args' = [timeout |-> AvailTimeout]
    /\ start_time' = now
    /\ ret' = "None"
    /\ pc' = "wait"
    /\ backend' = [backend EXCEPT !.polls = <<>>]
    /\ UNCHANGED <<now, app_state, availFrame>>

(* the loop test, and one update_app_state() when the loop goes on *)
ReachPoll ==
    /\ pc = "wait"
    /\ IF KeepsWaiting(now - start_time, args.timeout)
       THEN LET after == update_app_state(app_state, now, backend.running)
                called == after.last_check_time # app_state.last_check_time
                record == [at |-> now, called |-> called, answer |-> after.is_available]
            IN  /\ app_state' = after
                /\ backend' = [backend EXCEPT
                                 !.calls = IF called THEN Returned(@, now) ELSE @,
                                 !.polls = Append(@, record),
                                 !.last = record]
                /\ IF after.is_available
                   THEN pc' = "done" /\ ret' = "True"
                   ELSE pc' = "poll_sleep" /\ UNCHANGED ret
       ELSE /\ pc' = "done"
            /\ ret' = "False"
            /\ UNCHANGED <<app_state, backend>>
    /\ UNCHANGED <<now, args, start_time, availFrame>>

NextReach ==
    \/ AvailElapse
    \/ TargetUp
    \/ TargetDown
    \/ ReachCall
    \/ ReachPoll
    \/ WaitSleep

ReachSpec == InitReach /\ [][NextReach]_vars

(* C36: wait_for_app_availability(5) returns False only if the target was   *)
(* not reachable from some instant before the deadline on: a target that    *)
(* has been reachable since before the deadline makes the call return True. *)
C36_ReachableAdmitted ==
    (pc = "done" /\ ret = "False")
      => ~(backend.running /\ backend.since < start_time + args.timeout)

----------------------------------------------------------------------------
(* One caller of a function decorated with @cached(ttl), with positional    *)
(* and keyword arguments. The function is pure: what it returns is          *)
(* determined by the arguments it is called with.                           *)

Positionals == {<<>>, <<"1">>, <<"2">>}
Keywords == {<<>>, <<<<"a", "1">>>>, <<<<"b", "1">>>>}

RECURSIVE JoinArgs(_)
JoinArgs(positional) ==
    IF positional = <<>> THEN ""
    ELSE Head(positional) \o "," \o JoinArgs(Tail(positional))

(* func(...): the value computed for this argument list *)
func(positional, kwargs) ==
    "f(" \o JoinArgs(positional) \o json_dumps(Items(Mapping(kwargs))) \o ")"

InitArgs ==
    /\ now = StartTime
    /\ IdleBreaker
    /\ IdleRetry
    /\ dlq_file = NoFile
    /\ replay = IdleReplay
    /\ tool = IdleTool
    /\ _cache = ThingsCache(DefaultTtl)
    /\ cacheHist = [last |-> NoCacheCall, stored |-> {}]
    /\ rate_limiter = RateLimiter(DefaultRate)
    /\ limiter = IdleLimiter
    /\ \E ttl \in TtlChoices :
         threads = [pc |-> "idle", ttl |-> ttl, positional |-> <<>>, kwargs |-> <<>>,
                    cached_value |-> "None", result |-> "None"]
    /\ backend = NoBackend
    /\ cache = SimpleCache
    /\ things = NoThings

(* wrapper(...) from its call to its return: the get, and on a miss the     *)
(* call of func and the set. The key is made of func.__name__ and kwargs.   *)
CallWrapped ==
    \E positional \in Positionals, kwargs \in Keywords :
       LET got == get(_cache, Wrapped, kwargs, now)
           result == func(positional, kwargs)
       IN  /\ \/ got.ret # "None"
              \/ _make_key(Wrapped, kwargs) \in DOMAIN got.self.cache
              \/ Cardinality(DOMAIN got.self.cache) < MaxEntries
           /\ got.self.hit_count + got.self.miss_count <= MaxGets + MaxEntries
           /\ IF got.ret # "None"
              THEN /\ _cache' = got.self
                   /\ threads' = [threads EXCEPT
                          !.pc = "done", !.positional = positional,
                          !.kwargs = kwargs, !.cached_value = got.ret,
                          !.result = got.ret]
              ELSE /\ _cache' = set(got.self, Wrapped, result, threads.ttl, kwargs, now)
                   /\ threads' = [threads EXCEPT
                          !.pc = "done", !.positional = positional,
                          !.kwargs = kwargs, !.cached_value = "None",
                          !.result = result]
           /\ UNCHANGED cachedFrame

NextArgs ==
    \/ CacheTick
    \/ CallWrapped

ArgsSpec == InitArgs /\ [][NextArgs]_vars

(* C37: what a call of the wrapped function returns is the value computed   *)
(* for the argument list of that call, positional and keyword.              *)
C37_OwnArguments ==
    threads.pc = "done" => threads.result = func(threads.positional, threads.kwargs)

----------------------------------------------------------------------------
(* C38: in every state of the breaker in which no call on it is running,   *)
(* whether one thread or several have been calling it, Closed goes with     *)
(* failure_count < failure_threshold, Open and Half-Open go with            *)
(* failure_count >= failure_threshold; and a record_failure call made in    *)
(* Half-Open leaves the breaker Open.                                       *)
C38_CountMatchesState ==
    (\A c \in DOMAIN threads : threads[c].pc = "idle")
      => /\ circuit_breaker.failure_threshold >= 1
         /\ circuit_breaker.state = CLOSED
              => circuit_breaker.failure_count < circuit_breaker.failure_threshold
         /\ circuit_breaker.state \in {OPEN, HALF_OPEN}
              => circuit_breaker.failure_count >= circuit_breaker.failure_threshold
         /\ (last.op = "record_failure" /\ last.before.state = HALF_OPEN)
              => circuit_breaker.state = OPEN

----------------------------------------------------------------------------
(* The dead letter queue on a disk that may fail. A file that does not      *)
(* parse is Torn; a write fails in open(), leaving the file as it was, or   *)
(* in json.dump, leaving a part of the text. threads is the last call on    *)
(* the queue: the exception that left it, if any, and what the disk did.    *)

Torn == [exists |-> TRUE, text |-> [json |-> "invalid", items |-> <<>>]]
Disk == {"ok", "open fails", "dump fails"}

(* _load_queue with its try and except: the list returned and the           *)
(* exception that leaves the method                                         *)
TryLoad(file) ==
    [value |-> _load_queue(file), raised |-> "None"]

(* mutant: _save_queue without its except clause *)
TrySave_uncaught(queue, file, disk) ==
    CASE disk = "ok" -> [file |-> _save_queue(queue), raised |-> "None"]
      [] disk = "open fails" -> [file |-> file, raised |-> "OSError"]
      [] OTHER -> [file |-> Torn, raised |-> "TypeError"]

(* _save_queue with its try and except: the file afterwards and the         *)
(* exception that leaves the method                                         *)
TrySave(queue, file, disk) ==
    CASE disk = "ok" -> [file |-> _save_queue(queue), raised |-> "None"]
      [] disk = "open fails" -> [file |-> file, raised |-> "None"]
      [] OTHER -> [file |-> Torn, raised |-> "None"]

NoDlqCall == [op |-> "none", raised |-> "None", disk |-> "ok", file |-> NoFile]

InitPersist ==
    /\ now = StartTime
    /\ IdleBreaker
    /\ app_state = [is_available |-> TRUE, last_check_time |-> StartTime]
    /\ \E file \in {NoFile, Torn, _save_queue(<<StoredEntry>>)} :
           /\ dlq_file = file
           /\ dead_letter_queue = TryLoad(file).value
           /\ threads = [NoDlqCall EXCEPT !.op = "__init__", !.file = file]
    /\ IdleCall
    /\ replay = IdleReplay
    /\ tool = IdleTool
    /\ _cache = ThingsCache(DefaultTtl)
    /\ cacheHist = [last |-> NoCacheCall, stored |-> {}]
    /\ rate_limiter = RateLimiter(DefaultRate)
    /\ limiter = IdleLimiter
    /\ backend = NoBackend
    /\ cache = SimpleCache
    /\ things = NoThings

persistFrame == <<breakerVars, app_state, pc, callVars, tool, _cache, cacheHist,
                  rate_limiter, limiter, backend, cache, things>>

(* add_failed_operation: the append, then _save_queue *)
PersistAdd ==
    /\ replay.pc # "loop"
    /\ Len(dead_letter_queue) < MaxQueue
    /\ \E disk \in Disk :
         LET queue == add_failed_operation(dead_letter_queue, "add-todo",
                                           {<<"title", "x">>}, "timeout",
                                           DefaultAttempts, now)
             saved == TrySave(queue, dlq_file, disk)
         IN  /\ dead_letter_queue' = queue
             /\ dlq_file' = saved.file
             /\ threads' = [NoDlqCall EXCEPT !.op = "add_failed_operation",
                                              !.raised = saved.raised,
                                              !.disk = disk]
    /\ replay' = IdleReplay
    /\ UNCHANGED <<now, persistFrame>>

(* after the loop of retry_all: self.queue = remaining_queue, _save_queue() *)
(* and, unless that raised, the result                                      *)
PersistRetryAllFinish ==
    /\ replay.pc = "loop"
    /\ replay.i > Len(dead_letter_queue)
    /\ \E disk \in Disk :
         LET saved == TrySave(replay.remaining_queue, dlq_file, disk)
         IN  /\ dead_letter_queue' = replay.remaining_queue
             /\ dlq_file' = saved.file
             /\ threads' = [NoDlqCall EXCEPT !.op = "retry_all",
                                              !.raised = saved.raised,
                                              !.disk = disk]
             /\ replay' = IF saved.raised = "None"
                          THEN [replay EXCEPT
                                  !.pc = "done",
                                  !.ret = [success |-> replay.failure_count = 0,
                                           retried |-> replay.success_count
                                                         + replay.failure_count,
                                           failed |-> replay.failure_count]]
                          ELSE [replay EXCEPT !.pc = "raised"]
    /\ UNCHANGED <<now, persistFrame>>

(* the process starts again: DeadLetterQueue() on the file as it is *)
PersistRestart ==
    /\ replay.pc # "loop"
    /\ dead_letter_queue' = TryLoad(dlq_file).value
    /\ threads' = [NoDlqCall EXCEPT !.op = "__init__",
                                     !.raised = TryLoad(dlq_file).raised,
                                     !.file = dlq_file]
    /\ replay' = [IdleReplay EXCEPT !.pc = "restarted"]
    /\ UNCHANGED <<now, dlq_file, persistFrame>>

NextPersist ==
    \/ PersistAdd
    \/ RetryAllStart
    \/ ReplayEntry
    \/ PersistRetryAllFinish
    \/ PersistRestart

PersistSpec == InitPersist /\ [][NextPersist]_vars

(* C39: no call on the dead letter queue ends with an exception. A queue    *)
(* constructed on a missing or unparsable file is empty; after              *)
(* add_failed_operation the queue in memory is the old one with the new     *)
(* entry at its end, and after retry_all it holds the entries that remain   *)
(* and the result was returned, whether the write succeeded or failed.      *)
C39_PersistenceContained ==
    /\ [](/\ threads.raised = "None"
          /\ (threads.op = "__init__" /\ (~threads.file.exists \/ threads.file = Torn))
               => dead_letter_queue = <<>>
          /\ (threads.op = "retry_all" /\ replay.pc # "loop")
               => /\ replay.pc = "done"
                  /\ dead_letter_queue = Remaining(replay.before, replay.results)
                  /\ replay.ret.failed = Len(dead_letter_queue))
    /\ [][(/\ threads'.op = "add_failed_operation"
           /\ replay'.pc # "loop"
           /\ dead_letter_queue' # dead_letter_queue)
          => /\ Len(dead_letter_queue') = Len(dead_letter_queue) + 1
             /\ SubSeq(dead_letter_queue', 1, Len(dead_letter_queue)) = dead_letter_queue
             /\ dead_letter_queue'[Len(dead_letter_queue')].operation = "add-todo"]_vars

(* a write failed in add_failed_operation: the queue in memory holds an     *)
(* entry that the file does not                                             *)
C39_Witness ==
    /\ threads.op = "add_failed_operation"
    /\ threads.disk # "ok"
    /\ threads.raised = "None"
    /\ Len(dead_letter_queue) = 2
    /\ Len(_load_queue(dlq_file)) < 2

====
